---------------------------- MODULE Spec2Model ----------------------------
(***************************************************************************)
(* A model of dlhd-proxy: the obfuscation cipher (utils.py), the catalog   *)
(* scraper and stream resolver (step_daddy.py) and the schedule reconciler *)
(* (backend.py).  Each component has its own specification over the        *)
(* variables it owns; the other variables stay at their initial value.     *)
(***************************************************************************)
EXTENDS Integers, Sequences, FiniteSets, TLC

VARIABLES
    \* ---- utils.py: the obfuscation cipher
    key_bytes,      \* utils.key_bytes, drawn once at import
    plain,          \* the string last given to encrypt (code points), or NONE
    token,          \* the token under consideration (sequence of characters)
    origin,         \* "none" | "issued" | "corrupted" | "forged"
    result,         \* outcome of the last decrypt of token, or NotRun
    \* ---- step_daddy.py: the catalog and one load_channels run
    channels,       \* StepDaddy.channels, the published catalog
    lc_pc,          \* where load_channels is: "idle" | "listing" | "schedule"
    lc_channels,    \* load_channels' local dict `channels` (set of id/name)
    lc_failed,      \* whether the run's listing request raised
    before,         \* the catalog when the latest run started
    seen,           \* what a reader last got from StepDaddy.channels
    \* ---- step_daddy.py: _enumerate_duplicate_names on its own
    enum_in,        \* the list handed to _enumerate_duplicate_names
    enum_out,       \* the list after the call, or NotCalled
    \* ---- step_daddy.py: one call of StepDaddy.stream
    st,             \* its position, locals and the requests it has sent
    \* ---- backend.py: the channel selection and get_schedule
    channel_file,   \* the selection file: NoFile or File(ids)
    gs,             \* the last call of get_schedule: answer, selection, result
    \* ---- backend.py: guide.xml and generate_guide
    guide_file,     \* guide.xml: NoGuide or Written(document)
    guide_tasks,    \* the calls of generate_guide that await the schedule
    gg,             \* the last generate_guide that ran to its end
    \* ---- step_daddy.py: the playlist rewrite and /content
    rw,             \* the playlist last rewritten and the content path asked
    \* ---- backend.py: the background tasks
    uc,             \* update_channels: its position and last refresh
    ag,             \* auto_update_guide: its position and last generation
    \* ---- step_daddy.py: one call of StepDaddy.schedule
    sch,            \* its position, the requests it has sent and its outcome
    \* ---- utils.py: one call of decode_bundle
    db,             \* its input, the order of its candidates and its outcome
    \* ---- step_daddy.py: several calls of StepDaddy.stream at once
    rs,             \* the calls, each like st
    \* ---- backend.py: the /key and /content routes
    px,             \* the request last served: its tokens, requests and response
    \* ---- backend.py: the clock of auto_update_guide
    tm,             \* the time, the zone and the generations of the timer
    \* ---- step_daddy.py: several runs of load_channels at once
    ld,             \* the runs, each with its local dict, and their order
    \* ---- backend.py: the /playlist.m3u8 route
    pl,             \* the playlist last served, with its catalog and selection
    \* ---- backend.py: selection changes and regenerations that overlap
    rg              \* the generate_guide calls in flight and those that ended

cipherVars == <<key_bytes, plain, token, origin, result>>
catalogVars == <<channels, lc_pc, lc_channels, lc_failed, before, seen>>
enumVars == <<enum_in, enum_out>>
streamVars == <<st>>
scheduleVars == <<channel_file, gs>>
guideVars == <<guide_file, guide_tasks, gg>>
rewriteVars == <<rw>>
loopVars == <<uc, ag>>
fetchVars == <<sch>>
bundleVars == <<db>>
callsVars == <<rs>>
proxyVars == <<px>>
timerVars == <<tm>>
loadsVars == <<ld>>
playlistVars == <<pl>>
regenVars == <<rg>>

vars ==
    <<cipherVars, catalogVars, enumVars, streamVars, scheduleVars, guideVars,
      rewriteVars, loopVars, fetchVars, bundleVars, callsVars, proxyVars, timerVars,
                   loadsVars, playlistVars, regenVars>>

\* what a failed conversion yields in place of a byte or code-point sequence
NONE == <<-1>>
\* the outcome of decrypt
NotRun == [status |-> "none"]
InvalidToken == [status |-> "InvalidToken"]
Ok(text) == [status |-> "ok", text |-> text]

(***************************************************************************)
(* Bounds of the model.                                                    *)
(***************************************************************************)
\* length of the cipher key (64 in the code, scaled down so that the key
\* wraps around within MaxStrLen code points)
KeyLen == 2
\* longest plaintext, in code points
MaxStrLen == 2
\* longest token made up by a client rather than issued by encrypt
MaxForgeLen == 3

(***************************************************************************)
(* Bytes, code points and characters.                                      *)
(***************************************************************************)
RECURSIVE BitXor(_, _, _)
BitXor(a, b, n) ==
    IF n = 0 THEN 0
    ELSE (((a % 2) + (b % 2)) % 2) + 2 * BitXor(a \div 2, b \div 2, n - 1)

\* the code points plaintexts are built from: 1-, 2-, 3- and 4-byte UTF-8
CodePoints == {65, 233, 8364, 128512}

RECURSIVE SeqsUpTo(_, _)
SeqsUpTo(S, n) ==
    IF n = 0 THEN {<<>>}
    ELSE LET shorter == SeqsUpTo(S, n - 1)
         IN  shorter \cup {Append(s, x) : s \in {t \in shorter : Len(t) = n - 1}, x \in S}

\* str.encode(): the UTF-8 bytes of one code point
Utf8Of(cp) ==
    IF cp < 128 THEN <<cp>>
    ELSE IF cp < 2048 THEN <<192 + (cp \div 64), 128 + (cp % 64)>>
    ELSE IF cp < 65536 THEN
        <<224 + (cp \div 4096), 128 + ((cp \div 64) % 64), 128 + (cp % 64)>>
    ELSE <<240 + (cp \div 262144), 128 + ((cp \div 4096) % 64),
           128 + ((cp \div 64) % 64), 128 + (cp % 64)>>

RECURSIVE Utf8Encode(_)
Utf8Encode(s) ==
    IF s = <<>> THEN <<>> ELSE Utf8Of(Head(s)) \o Utf8Encode(Tail(s))

IsCont(b) == b >= 128 /\ b <= 191

\* bytes.decode(): strict UTF-8; NONE stands for UnicodeDecodeError
RECURSIVE Utf8Decode(_)
Utf8Decode(bs) ==
    IF bs = <<>> THEN <<>>
    ELSE LET b0 == bs[1]
             n  == IF b0 < 128 THEN 1
                   ELSE IF b0 >= 194 /\ b0 <= 223 THEN 2
                   ELSE IF b0 >= 224 /\ b0 <= 239 THEN 3
                   ELSE IF b0 >= 240 /\ b0 <= 244 THEN 4
                   ELSE 0
         IN  IF n = 0 \/ Len(bs) < n THEN NONE
             ELSE IF \E i \in 2..n : ~IsCont(bs[i]) THEN NONE
             ELSE IF n = 3 /\ b0 = 224 /\ bs[2] < 160 THEN NONE
             ELSE IF n = 3 /\ b0 = 237 /\ bs[2] > 159 THEN NONE
             ELSE IF n = 4 /\ b0 = 240 /\ bs[2] < 144 THEN NONE
             ELSE IF n = 4 /\ b0 = 244 /\ bs[2] > 143 THEN NONE
             ELSE LET cp == IF n = 1 THEN b0
                            ELSE IF n = 2 THEN (b0 - 192) * 64 + (bs[2] - 128)
                            ELSE IF n = 3 THEN (b0 - 224) * 4096 + (bs[2] - 128) * 64
                                               + (bs[3] - 128)
                            ELSE (b0 - 240) * 262144 + (bs[2] - 128) * 4096
                                 + (bs[3] - 128) * 64 + (bs[4] - 128)
                      rest == Utf8Decode(SubSeq(bs, n + 1, Len(bs)))
                  IN  IF rest = NONE THEN NONE ELSE <<cp>> \o rest

\* the URL-safe base64 alphabet, by sextet value + 1
UrlAlphabet ==
    <<"A","B","C","D","E","F","G","H","I","J","K","L","M","N","O","P",
      "Q","R","S","T","U","V","W","X","Y","Z","a","b","c","d","e","f",
      "g","h","i","j","k","l","m","n","o","p","q","r","s","t","u","v",
      "w","x","y","z","0","1","2","3","4","5","6","7","8","9","-","_">>

UrlChars == {UrlAlphabet[i] : i \in 1..64}

\* the sextet a character stands for once urlsafe_b64decode has translated
\* "-" and "_" to "+" and "/"; 64 for a character the decoder discards
SextetOf(c) ==
    IF c \in UrlChars THEN (CHOOSE i \in 1..64 : UrlAlphabet[i] = c) - 1
    ELSE IF c = "+" THEN 62
    ELSE IF c = "/" THEN 63
    ELSE 64

\* base64.urlsafe_b64encode
RECURSIVE urlsafe_b64encode(_)
urlsafe_b64encode(bs) ==
    IF bs = <<>> THEN <<>>
    ELSE IF Len(bs) = 1 THEN
        <<UrlAlphabet[(bs[1] \div 4) + 1], UrlAlphabet[(bs[1] % 4) * 16 + 1], "=", "=">>
    ELSE IF Len(bs) = 2 THEN
        <<UrlAlphabet[(bs[1] \div 4) + 1],
          UrlAlphabet[(bs[1] % 4) * 16 + (bs[2] \div 16) + 1],
          UrlAlphabet[(bs[2] % 16) * 4 + 1], "=">>
    ELSE <<UrlAlphabet[(bs[1] \div 4) + 1],
           UrlAlphabet[(bs[1] % 4) * 16 + (bs[2] \div 16) + 1],
           UrlAlphabet[(bs[2] % 16) * 4 + (bs[3] \div 64) + 1],
           UrlAlphabet[(bs[3] % 64) + 1]>>
         \o urlsafe_b64encode(SubSeq(bs, 4, Len(bs)))

\* str.rstrip('=')
RECURSIVE rstrip_eq(_)
rstrip_eq(t) ==
    IF t # <<>> /\ t[Len(t)] = "=" THEN rstrip_eq(SubSeq(t, 1, Len(t) - 1)) ELSE t

\* binascii.a2b_base64 in its default (non-strict) mode, as
\* base64.urlsafe_b64decode calls it: characters outside the alphabet are
\* discarded, a completed pad ends the parse, and data left in an unfinished
\* quad is an error (NONE stands for binascii.Error)
RECURSIVE a2b_base64(_, _, _, _, _, _)
a2b_base64(t, i, quad, left, pads, out) ==
    IF i > Len(t) THEN (IF quad # 0 THEN NONE ELSE out)
    ELSE IF t[i] = "=" THEN
        IF quad >= 2 /\ quad + pads + 1 >= 4 THEN out
        ELSE a2b_base64(t, i + 1, quad, left, IF quad >= 2 THEN pads + 1 ELSE pads, out)
    ELSE LET v == SextetOf(t[i])
         IN  IF v = 64 THEN a2b_base64(t, i + 1, quad, left, pads, out)
             ELSE IF quad = 0 THEN a2b_base64(t, i + 1, 1, v, 0, out)
             ELSE IF quad = 1 THEN
                 a2b_base64(t, i + 1, 2, v % 16, 0, Append(out, left * 4 + (v \div 16)))
             ELSE IF quad = 2 THEN
                 a2b_base64(t, i + 1, 3, v % 4, 0, Append(out, left * 16 + (v \div 4)))
             ELSE a2b_base64(t, i + 1, 0, 0, 0, Append(out, left * 64 + v))

urlsafe_b64decode(t) == a2b_base64(t, 1, 0, 0, 0, <<>>)

(***************************************************************************)
(* utils.py: encrypt / decrypt / xor                                       *)
(***************************************************************************)
\* the keys os.urandom may have drawn, one per seed
KeySeeds == {0, 77, 201}
KeyOf(seed) == [i \in 1..KeyLen |-> (seed + 89 * i) % 256]

xor(key, input_bytes) ==
    [i \in 1..Len(input_bytes) |->
        BitXor(input_bytes[i], key[((i - 1) % Len(key)) + 1], 8)]

encrypt(key, input_string) ==
    rstrip_eq(urlsafe_b64encode(xor(key, Utf8Encode(input_string))))

\* "=" * ((-len(input_string)) % 4) appended
Padded(input_string) ==
    LET padding_needed == (4 - (Len(input_string) % 4)) % 4
    IN  input_string \o [i \in 1..padding_needed |-> "="]

\* re.fullmatch(r"[A-Za-z0-9_-]+=?=?", input_string)
TokenPatternAccept(t) == TRUE
TokenPattern(t) ==
    \E n \in 1..Len(t) :
        /\ \A i \in 1..n : t[i] \in UrlChars
        /\ Len(t) - n <= 2
        /\ \A i \in (n + 1)..Len(t) : t[i] = "="

decrypt(key, input_string) ==
    LET padded == Padded(input_string)
    IN  IF ~TokenPattern(padded) THEN InvalidToken
        ELSE LET input_bytes == urlsafe_b64decode(padded)
             IN  IF input_bytes = NONE THEN InvalidToken
                 ELSE LET text == Utf8Decode(xor(key, input_bytes))
                      IN  IF text = NONE THEN InvalidToken ELSE Ok(text)

(***************************************************************************)
(* The cipher's specification: a token is issued by encrypt, possibly      *)
(* altered in one position, or made up by the client; then it is decrypted.*)
(***************************************************************************)
Plaintexts == SeqsUpTo(CodePoints, MaxStrLen)

\* characters a client may put in a token: alphabet characters, the pad,
\* characters of the standard alphabet and one outside both
ClientChars == {"Q", "g", "_", "=", "+", "@"}
ForgedTokens == SeqsUpTo({"Q", "=", "@"}, MaxForgeLen)

Encrypt(s) ==
    /\ origin = "none"
    /\ plain' = s
    /\ token' = encrypt(key_bytes, s)
    /\ origin' = "issued"
    /\ UNCHANGED <<key_bytes, result, catalogVars, enumVars, streamVars, scheduleVars, guideVars, rewriteVars, loopVars, fetchVars, bundleVars, callsVars, proxyVars, timerVars,
                   loadsVars, playlistVars, regenVars>>

Corrupt(i, c) ==
    /\ origin = "issued"
    /\ result = NotRun
    /\ i \in 1..Len(token)
    /\ token[i] # c
    /\ token' = [token EXCEPT ![i] = c]
    /\ origin' = "corrupted"
    /\ UNCHANGED <<key_bytes, plain, result, catalogVars, enumVars, streamVars, scheduleVars, guideVars, rewriteVars, loopVars, fetchVars, bundleVars, callsVars, proxyVars, timerVars,
                   loadsVars, playlistVars, regenVars>>

Forge(t) ==
    /\ origin = "none"
    /\ token' = t
    /\ origin' = "forged"
    /\ UNCHANGED <<key_bytes, plain, result, catalogVars, enumVars, streamVars, scheduleVars, guideVars, rewriteVars, loopVars, fetchVars, bundleVars, callsVars, proxyVars, timerVars,
                   loadsVars, playlistVars, regenVars>>

Decrypt ==
    /\ origin # "none"
    /\ result = NotRun
    /\ result' = decrypt(key_bytes, token)
    /\ UNCHANGED <<key_bytes, plain, token, origin, catalogVars, enumVars, streamVars, scheduleVars, guideVars, rewriteVars, loopVars, fetchVars, bundleVars, callsVars, proxyVars, timerVars,
                   loadsVars, playlistVars, regenVars>>

\* a later request starts over with the same process-wide key
Reset ==
    /\ result # NotRun
    /\ plain' = NONE
    /\ token' = <<>>
    /\ origin' = "none"
    /\ result' = NotRun
    /\ UNCHANGED <<key_bytes, catalogVars, enumVars, streamVars, scheduleVars, guideVars, rewriteVars, loopVars, fetchVars, bundleVars, callsVars, proxyVars, timerVars,
                   loadsVars, playlistVars, regenVars>>

CipherNext ==
    \/ \E s \in Plaintexts : Encrypt(s)
    \/ \E i \in 1..(4 * MaxStrLen + 4), c \in ClientChars : Corrupt(i, c)
    \/ \E t \in ForgedTokens : Forge(t)
    \/ Decrypt
    \/ Reset

(***************************************************************************)
(* Strings of the catalog: a name or an id is a sequence of characters.    *)
(***************************************************************************)
\* the characters names and ids are made of, with their code points
CharTable ==
    <<" ", "(", ")", "+", "-", "0", "1", "2", "3", "4", "5", "6", "7", "8", "9",
      ":", "M", "X", "Y", "_", "x", "y">>
CodeTable ==
    <<32, 40, 41, 43, 45, 48, 49, 50, 51, 52, 53, 54, 55, 56, 57,
      58, 77, 88, 89, 95, 120, 121>>

CharCode(c) == CodeTable[CHOOSE i \in 1..Len(CharTable) : CharTable[i] = c]
CharOf(code) == CharTable[CHOOSE i \in 1..Len(CodeTable) : CodeTable[i] = code]

\* str < str: by code point, a proper prefix first
RECURSIVE StrLess(_, _)
StrLess(a, b) ==
    IF b = <<>> THEN FALSE
    ELSE IF a = <<>> THEN TRUE
    ELSE IF a[1] = b[1] THEN StrLess(Tail(a), Tail(b))
    ELSE CharCode(a[1]) < CharCode(b[1])

\* str(n) for n >= 0
RECURSIVE Decimal(_)
Decimal(n) ==
    IF n < 10 THEN <<CharOf(48 + n)>>
    ELSE Decimal(n \div 10) \o <<CharOf(48 + (n % 10))>>

\* the least of a non-empty set of numbers
FirstOf(S) == CHOOSE i \in S : \A j \in S : i <= j

\* dict.get(k, default) and d[k] = v on a dict held as a function
DictGet(d, k, default) == IF k \in DOMAIN d THEN d[k] ELSE default
DictSet(d, k, v) == [x \in (DOMAIN d) \cup {k} |-> IF x = k THEN v ELSE d[x]]
EmptyDict == [x \in {} |-> 0]

(***************************************************************************)
(* step_daddy.py: StepDaddy._enumerate_duplicate_names                     *)
(***************************************************************************)
\* first loop: counts[channel.name] = counts.get(channel.name, 0) + 1
RECURSIVE name_counts(_, _, _)
name_counts(chs, i, counts) ==
    IF i > Len(chs) THEN counts
    ELSE name_counts(chs, i + 1,
                     DictSet(counts, chs[i].name, DictGet(counts, chs[i].name, 0) + 1))

\* f"{name} ({index})"
Suffixed(name, index) == name \o <<" ", "(">> \o Decimal(index) \o <<")">>

\* second loop: a channel whose name was counted more than once gets the
\* next index of that name
RECURSIVE enumerate_pass(_, _, _, _)
enumerate_pass(chs, i, counts, seen_names) ==
    IF i > Len(chs) THEN chs
    ELSE LET name == chs[i].name
         IN  IF DictGet(counts, name, 0) > 1
             THEN LET index == DictGet(seen_names, name, 0) + 1
                  IN  enumerate_pass([chs EXCEPT ![i].name = Suffixed(name, index)],
                                     i + 1, counts, DictSet(seen_names, name, index))
             ELSE enumerate_pass(chs, i + 1, counts, seen_names)

\* the same with the first occurrence left alone and the later ones counted
\* from 1 (a plausible slip: suffix only what was seen before)
RECURSIVE enumerate_pass_later(_, _, _)
enumerate_pass_later(chs, i, seen_names) ==
    IF i > Len(chs) THEN chs
    ELSE LET name == chs[i].name
             index == DictGet(seen_names, name, 0)
         IN  enumerate_pass_later(
                 IF index > 0 THEN [chs EXCEPT ![i].name = Suffixed(name, index)] ELSE chs,
                 i + 1, DictSet(seen_names, name, index + 1))

enumerate_later_only(chs) == enumerate_pass_later(chs, 1, EmptyDict)

enumerate_duplicate_names(chs) ==
    enumerate_pass(chs, 1, name_counts(chs, 1, EmptyDict), EmptyDict)

(***************************************************************************)
(* step_daddy.py: StepDaddy.load_channels                                  *)
(***************************************************************************)
Channel(id, name) == [id |-> id, name |-> name]

\* channel.name.startswith("18")
StartsWith18(name) == Len(name) >= 2 /\ name[1] = "1" /\ name[2] = "8"

\* the sort key (channel.name.startswith("18"), channel.name, channel.id)
KeyLess(a, b) ==
    IF StartsWith18(a.name) # StartsWith18(b.name) THEN StartsWith18(b.name)
    ELSE IF a.name # b.name THEN StrLess(a.name, b.name)
    ELSE StrLess(a.id, b.id)

\* sorted(channels.values(), key=...): the ids of a dict are distinct, so the
\* key is a total order and the result does not depend on the dict's order
RECURSIVE sorted_channels(_)
sorted_channels(S) ==
    IF S = {} THEN <<>>
    ELSE LET least == CHOOSE x \in S : \A y \in S \ {x} : KeyLess(x, y)
         IN  <<least>> \o sorted_channels(S \ {least})

\* _channel_from_schedule: channel_name = str(channel_name or channel_id)
channel_from_schedule(channel_id, channel_name) ==
    Channel(channel_id, IF channel_name = <<>> THEN channel_id ELSE channel_name)

\* lines 103-125: a channel of the schedule is added unless its id is known
MergeSchedule(local, schedule) ==
    local \cup {channel_from_schedule(e.id, e.name) :
                    e \in {x \in schedule : \A c \in local : c.id # x.id}}

\* lines 127-132: what the run assigns to self.channels
Finalize(local) == enumerate_duplicate_names(sorted_channels(local))

\* the run builds its dict in a local variable: self.channels is not
\* assigned before line 132
CatalogWhileLoadingInPlace(published, local) == sorted_channels(local)
CatalogWhileLoading(published, local) == published

\* ids and names the upstream may supply
Ids == {<<"1">>, <<"2">>, <<"1", "0">>}
ListingNames == {<<"X">>, <<"X", " ", "(", "1", ")">>, <<"1", "8", "+">>}
ScheduleNames == {<<"X">>, <<>>}

\* a dict of channels: at most one name per id
DictsOver(ids, names) ==
    UNION {{{Channel(i, f[i]) : i \in D} : f \in [D -> names]} : D \in SUBSET ids}

\* a request that raised (transport error or raise_for_status), or its payload
Failure == [ok |-> FALSE]
Payload(entries) == [ok |-> TRUE, entries |-> entries]
\* the channels parsed from the listing page (lines 89-99), one per id
ListingResponses == {Failure} \cup {Payload(d) : d \in DictsOver(Ids, ListingNames)}
\* the channel references of the schedule payload, the first one per id
ScheduleResponses == {Failure} \cup {Payload(d) : d \in DictsOver(Ids, ScheduleNames)}

NotRead == [read |-> FALSE]
Read(list) == [read |-> TRUE, list |-> list]

\* load_channels is called (startup, update_channels, refresh_all) and
\* awaits the listing page
LoadStart ==
    /\ lc_pc = "idle"
    /\ lc_pc' = "listing"
    /\ lc_channels' = {}
    /\ lc_failed' = FALSE
    /\ before' = channels
    /\ seen' = NotRead
    /\ UNCHANGED <<channels, cipherVars, enumVars, streamVars, scheduleVars, guideVars, rewriteVars, loopVars, fetchVars, bundleVars, callsVars, proxyVars, timerVars,
                   loadsVars, playlistVars, regenVars>>

\* lines 81-101: the listing request returns or raises; then the run awaits
\* the schedule
ListingResponse(resp) ==
    /\ lc_pc = "listing"
    /\ lc_pc' = "schedule"
    /\ lc_failed' = (resp = Failure)
    /\ lc_channels' = IF resp = Failure THEN {} ELSE resp.entries
    /\ channels' = CatalogWhileLoading(channels, lc_channels')
    /\ UNCHANGED <<before, seen, cipherVars, enumVars, streamVars, scheduleVars, guideVars, rewriteVars, loopVars, fetchVars, bundleVars, callsVars, proxyVars, timerVars,
                   loadsVars, playlistVars, regenVars>>

\* lines 103-132: the schedule request returns or raises; the run sorts,
\* enumerates and publishes without awaiting again
ScheduleResponse(resp) ==
    /\ lc_pc = "schedule"
    /\ lc_pc' = "idle"
    /\ channels' = Finalize(IF resp = Failure THEN lc_channels
                            ELSE MergeSchedule(lc_channels, resp.entries))
    /\ lc_channels' = {}
    /\ UNCHANGED <<lc_failed, before, seen, cipherVars, enumVars, streamVars, scheduleVars, guideVars, rewriteVars, loopVars, fetchVars, bundleVars, callsVars, proxyVars, timerVars,
                   loadsVars, playlistVars, regenVars>>

\* get_channels, get_channel, get_schedule, generate_guide, playlist: each
\* takes StepDaddy.channels between two awaits
ReadCatalog ==
    /\ seen' = Read(channels)
    /\ UNCHANGED <<channels, lc_pc, lc_channels, lc_failed, before, cipherVars, enumVars, streamVars, scheduleVars, guideVars, rewriteVars, loopVars, fetchVars, bundleVars, callsVars, proxyVars, timerVars,
                   loadsVars, playlistVars, regenVars>>

CatalogNext ==
    \/ LoadStart
    \/ \E resp \in ListingResponses : ListingResponse(resp)
    \/ \E resp \in ScheduleResponses : ScheduleResponse(resp)
    \/ ReadCatalog

(***************************************************************************)
(* _enumerate_duplicate_names applied to any list of channels.             *)
(***************************************************************************)
MaxEnumLen == 4
EnumNames == {<<"X">>, <<"Y">>, <<"X", " ", "(", "1", ")">>}
\* the i-th channel of the list has id str(i), as in the test
EnumInputs ==
    {[i \in 1..Len(names) |-> Channel(Decimal(i), names[i])] :
        names \in SeqsUpTo(EnumNames, MaxEnumLen)}

NotCalled == [called |-> FALSE]
Called(list) == [called |-> TRUE, list |-> list]

EnumerateCall ==
    /\ enum_out = NotCalled
    /\ enum_out' = Called(enumerate_duplicate_names(enum_in))
    /\ UNCHANGED <<enum_in, cipherVars, catalogVars, streamVars, scheduleVars, guideVars, rewriteVars, loopVars, fetchVars, bundleVars, callsVars, proxyVars, timerVars,
                   loadsVars, playlistVars, regenVars>>

EnumNext == EnumerateCall

(***************************************************************************)
(* step_daddy.py: StepDaddy.stream, one call.  Each action is the code     *)
(* between two awaits: it takes the answer to the pending request and runs *)
(* up to the next request or to the end of the call.                       *)
(***************************************************************************)
\* prefixes = ["stream", "cast", "watch"]
prefixes == <<"stream", "cast", "watch">>
max_retries == 3

\* source_response = None
NoResponse ==
    [status |-> "none", marker |-> FALSE, key |-> FALSE, bundle |-> "missing", url |-> 0]

\* what the POST to the iframe URL can bring: a transport error (the post
\* raises CurlError, nothing is assigned), or a response, whose status
\* raise_for_status accepts or not, containing key_marker or not, with or
\* without the CHANNEL_KEY assignment, and with an XJZ bundle that is
\* missing, undecodable, lacking a field, or complete, or that decodes to a
\* JSON number, on which decode_bundle raises TypeError
IframeAnswers ==
    {[status |-> "curl_error", marker |-> FALSE, key |-> FALSE, bundle |-> "missing"],
     [status |-> "http_error", marker |-> FALSE, key |-> FALSE, bundle |-> "missing"],
     [status |-> "http_error", marker |-> TRUE, key |-> TRUE, bundle |-> "complete"],
     [status |-> "ok", marker |-> FALSE, key |-> FALSE, bundle |-> "missing"]}
    \cup {[status |-> "ok", marker |-> TRUE, key |-> k, bundle |-> b] :
            k \in BOOLEAN,
            b \in {"missing", "undecodable", "incomplete", "complete", "number"}}

PageAnswers == {"error", "no_iframe", "iframe"}
AuthAnswers == {"curl_error", "http_error", "ok"}
LookupAnswers == {"curl_error", "http_error", "not_json", "no_server_key", "server_key"}
PlaylistAnswers == {"curl_error", "http_error", "ok"}

\* the errors the call raises: the ValueErrors of stream() itself, and the
\* errors of the HTTP session that it lets through
NoSourceError == "ValueError: Failed to find source URL for channel"
ValueErrors ==
    {"ValueError: Channel id is required",
     NoSourceError,
     "ValueError: Channel key not found in upstream response",
     "ValueError: Bundle data missing from upstream response",
     "ValueError: Incomplete authentication data returned from upstream",
     "ValueError: Invalid key response received from upstream",
     "ValueError: No server key found in response"}
SessionErrors == {"CurlError", "HTTPError"}
\* the exception that decode_bundle lets out at line 267
BundleError == "TypeError: argument of type 'int' is not iterable"

NoRequests ==
    [page |-> 0, iframe |-> 0, decode |-> 0, auth |-> 0, lookup |-> 0, m3u8 |-> 0]

StreamIdle ==
    [pc |-> "idle", prefix |-> 0, attempt |-> 0, iframes |-> 0, source_url |-> 0,
     source_response |-> NoResponse, error |-> "", sent |-> NoRequests,
     stages |-> <<>>, answered |-> NoResponse]

\* one more request (or bundle decode) of a kind
Sent(s, kind) == [s EXCEPT !.sent[kind] = @ + 1]
Raise(s, error) == [s EXCEPT !.pc = "raised", !.error = error]

\* the stages of the handshake, in the order of the steps that reach them:
\* a stream page with an iframe (l.215-218), an iframe response with the
\* key marker (l.248-253), a complete bundle (l.267-274), an accepted auth
\* GET (l.282), a server key (l.291-295), a fetched playlist (l.305) and
\* the rewritten playlist (l.307-319)
Stages ==
    <<"PageFound", "IframeFound", "BundleDecoded", "AuthAccepted",
      "ServerKeyResolved", "PlaylistFetched", "Rewritten">>
\* the call has reached a stage
Reach(s, stage) == [s EXCEPT !.stages = Append(@, stage)]

\* lines 256-282 with the check of lines 273-274 left out: the auth GET is
\* made with whatever fields the bundle has
ExtractUnchecked(s) ==
    LET r == s.source_response
    IN  IF ~r.key THEN Raise(s, "ValueError: Channel key not found in upstream response")
        ELSE IF r.bundle = "missing"
        THEN Raise(s, "ValueError: Bundle data missing from upstream response")
        ELSE IF r.bundle = "number" THEN Raise(Sent(s, "decode"), BundleError)
        ELSE [Sent(Sent(Reach(s, "BundleDecoded"), "decode"), "auth") EXCEPT !.pc = "auth"]

\* lines 256-282: key and bundle extraction, then the auth GET
Extract(s) ==
    LET r == s.source_response
    IN  IF ~r.key THEN Raise(s, "ValueError: Channel key not found in upstream response")
        ELSE IF r.bundle = "missing"
        THEN Raise(s, "ValueError: Bundle data missing from upstream response")
        ELSE IF r.bundle = "number" THEN Raise(Sent(s, "decode"), BundleError)
        ELSE IF r.bundle # "complete"
        THEN Raise(Sent(s, "decode"),
                   "ValueError: Incomplete authentication data returned from upstream")
        ELSE [Sent(Sent(Reach(s, "BundleDecoded"), "decode"), "auth") EXCEPT !.pc = "auth"]

\* lines 253-254 left out: whatever source_response holds is used
AfterTemplatesUnchecked(s) == Extract(s)

\* lines 253-254: after the loop over the templates
AfterTemplates(s) ==
    IF s.source_response = NoResponse \/ ~s.source_response.marker
    THEN Raise(s, NoSourceError)
    ELSE Extract(s)

\* the loop over the templates goes on: the next stream page is POSTed, or
\* the loop ends
NextTemplate(s) ==
    IF s.prefix < Len(prefixes)
    THEN [Sent(s, "page") EXCEPT !.pc = "page", !.prefix = s.prefix + 1]
    ELSE AfterTemplates(s)

\* lines 250-251 left out: the loop over the templates goes on
AfterAttemptsContinue(s) == NextTemplate(s)

\* lines 250-251: after the retry loop of one template
AfterAttempts(s) ==
    IF s.source_response # NoResponse /\ s.source_response.marker
    THEN AfterTemplates(s)
    ELSE NextTemplate(s)

\* the error is raised one attempt later than max_retries allows
RetryOnceMore(s, error) ==
    IF s.attempt = max_retries + 1 THEN Raise(s, error)
    ELSE [Sent(s, "iframe") EXCEPT !.attempt = s.attempt + 1]

\* lines 220-236: the next attempt, or the error is raised at the last one
RetryOrRaise(s, error) ==
    IF s.attempt = max_retries THEN Raise(s, error)
    ELSE [Sent(s, "iframe") EXCEPT !.attempt = s.attempt + 1]

\* lines 208-219: the answer to the POST of a stream page
PageReturn(s, answer) ==
    IF answer = "iframe"
    THEN [Sent(Reach(s, "PageFound"), "iframe") EXCEPT
              !.pc = "iframe", !.source_url = s.prefix, !.attempt = 1, !.iframes = @ + 1]
    ELSE NextTemplate(s)

\* the answer to the latest POST of the iframe URL is kept on record
Answered(s, answer) ==
    [s EXCEPT !.answered = [status |-> answer.status, marker |-> answer.marker,
                            key |-> answer.key, bundle |-> answer.bundle,
                            url |-> s.source_url]]
\* the next attempt, or the end of the retry loop after the last one
RetryOrGoOn(s) ==
    IF s.attempt < max_retries
    THEN [Sent(s, "iframe") EXCEPT !.attempt = s.attempt + 1]
    ELSE AfterAttempts(s)
\* lines 220-251 with `continue` in place of the `raise` of lines 228 and
\* 239: after a last attempt that failed the loop ends like any other
IframeReturnNeverRaises(s, answer) ==
    IF answer.status = "curl_error" THEN RetryOrGoOn(Answered(s, answer))
    ELSE LET got == [Answered(s, answer) EXCEPT
                         !.source_response = Answered(s, answer).answered]
         IN  IF answer.status = "http_error" THEN RetryOrGoOn(got)
             ELSE IF answer.marker THEN AfterAttempts(Reach(got, "IframeFound"))
             ELSE RetryOrGoOn(got)
\* lines 220-251: the answer to the POST of the iframe URL; a response is
\* assigned to source_response before its status is checked (lines 222-225)
IframeReturn(s, answer) ==
    IF answer.status = "curl_error" THEN RetryOrRaise(Answered(s, answer), "CurlError")
    ELSE LET got == [Answered(s, answer) EXCEPT
                         !.source_response = Answered(s, answer).answered]
         IN  IF answer.status = "http_error" THEN RetryOrRaise(got, "HTTPError")
             ELSE IF answer.marker THEN AfterAttempts(Reach(got, "IframeFound"))
             ELSE RetryOrGoOn(got)

\* lines 279-289: the answer to the auth GET; then the server lookup GET
AuthReturn(s, answer) ==
    IF answer = "curl_error" THEN Raise(s, "CurlError")
    ELSE IF answer = "http_error" THEN Raise(s, "HTTPError")
    ELSE [Sent(Reach(s, "AuthAccepted"), "lookup") EXCEPT !.pc = "lookup"]

\* line 294-295 left out: the playlist GET is made without a server key
LookupReturnUnchecked(s, answer) ==
    IF answer = "curl_error" THEN Raise(s, "CurlError")
    ELSE IF answer = "http_error" THEN Raise(s, "HTTPError")
    ELSE IF answer = "not_json"
    THEN Raise(s, "ValueError: Invalid key response received from upstream")
    ELSE IF answer = "no_server_key" THEN [Sent(s, "m3u8") EXCEPT !.pc = "m3u8"]
    ELSE [Sent(Reach(s, "ServerKeyResolved"), "m3u8") EXCEPT !.pc = "m3u8"]

\* lines 286-305: the answer to the server lookup; then the playlist GET
LookupReturn(s, answer) ==
    IF answer = "curl_error" THEN Raise(s, "CurlError")
    ELSE IF answer = "http_error" THEN Raise(s, "HTTPError")
    ELSE IF answer = "not_json"
    THEN Raise(s, "ValueError: Invalid key response received from upstream")
    ELSE IF answer = "no_server_key"
    THEN Raise(s, "ValueError: No server key found in response")
    ELSE [Sent(Reach(s, "ServerKeyResolved"), "m3u8") EXCEPT !.pc = "m3u8"]

\* lines 302-319 with a rejected status of the playlist GET reported as a
\* ValueError of stream()
PlaylistReturnNotFound(s, answer) ==
    IF answer = "curl_error" THEN Raise(s, "CurlError")
    ELSE IF answer = "http_error" THEN Raise(s, NoSourceError)
    ELSE [Reach(Reach(s, "PlaylistFetched"), "Rewritten") EXCEPT !.pc = "returned"]

\* lines 302-319: the answer to the playlist GET; the rewritten playlist is
\* returned
PlaylistReturn(s, answer) ==
    IF answer = "curl_error" THEN Raise(s, "CurlError")
    ELSE IF answer = "http_error" THEN Raise(s, "HTTPError")
    ELSE [Reach(Reach(s, "PlaylistFetched"), "Rewritten") EXCEPT !.pc = "returned"]

\* backend.py, lines 140-156: the status of the response the route makes of
\* an ended call
stream_response(s) ==
    IF s.pc = "returned" THEN 200
    ELSE IF s.error \in ValueErrors THEN 404
    ELSE 500

\* the channel ids a request may carry: none, or a channel's
StreamChannelIds == {<<>>, <<"1">>}

\* lines 195-209: stream(channel_id) is called
StreamCall(channel_id) ==
    /\ st.pc = "idle"
    /\ st' = IF channel_id = <<>>
             THEN Raise(st, "ValueError: Channel id is required")
             ELSE [Sent(st, "page") EXCEPT !.pc = "page", !.prefix = 1]
    /\ UNCHANGED <<cipherVars, catalogVars, enumVars, scheduleVars, guideVars, rewriteVars, loopVars, fetchVars, bundleVars, callsVars, proxyVars, timerVars,
                   loadsVars, playlistVars, regenVars>>

PageAnswer(answer) ==
    /\ st.pc = "page"
    /\ st' = PageReturn(st, answer)
    /\ UNCHANGED <<cipherVars, catalogVars, enumVars, scheduleVars, guideVars, rewriteVars, loopVars, fetchVars, bundleVars, callsVars, proxyVars, timerVars,
                   loadsVars, playlistVars, regenVars>>

IframeAnswer(answer) ==
    /\ st.pc = "iframe"
    /\ st' = IframeReturn(st, answer)
    /\ UNCHANGED <<cipherVars, catalogVars, enumVars, scheduleVars, guideVars, rewriteVars, loopVars, fetchVars, bundleVars, callsVars, proxyVars, timerVars,
                   loadsVars, playlistVars, regenVars>>

AuthAnswer(answer) ==
    /\ st.pc = "auth"
    /\ st' = AuthReturn(st, answer)
    /\ UNCHANGED <<cipherVars, catalogVars, enumVars, scheduleVars, guideVars, rewriteVars, loopVars, fetchVars, bundleVars, callsVars, proxyVars, timerVars,
                   loadsVars, playlistVars, regenVars>>

LookupAnswer(answer) ==
    /\ st.pc = "lookup"
    /\ st' = LookupReturn(st, answer)
    /\ UNCHANGED <<cipherVars, catalogVars, enumVars, scheduleVars, guideVars, rewriteVars, loopVars, fetchVars, bundleVars, callsVars, proxyVars, timerVars,
                   loadsVars, playlistVars, regenVars>>

PlaylistAnswer(answer) ==
    /\ st.pc = "m3u8"
    /\ st' = PlaylistReturn(st, answer)
    /\ UNCHANGED <<cipherVars, catalogVars, enumVars, scheduleVars, guideVars, rewriteVars, loopVars, fetchVars, bundleVars, callsVars, proxyVars, timerVars,
                   loadsVars, playlistVars, regenVars>>

StreamNext ==
    \/ \E channel_id \in StreamChannelIds : StreamCall(channel_id)
    \/ \E answer \in PageAnswers : PageAnswer(answer)
    \/ \E answer \in IframeAnswers : IframeAnswer(answer)
    \/ \E answer \in AuthAnswers : AuthAnswer(answer)
    \/ \E answer \in LookupAnswers : LookupAnswer(answer)
    \/ \E answer \in PlaylistAnswers : PlaylistAnswer(answer)

(***************************************************************************)
(* backend.py: the channel selection and get_schedule                      *)
(***************************************************************************)
\* JSON null / Python None: unlike every string, which is a sequence of
\* single characters
JsonNull == <<"None">>

\* the selection file (CHANNEL_FILE): missing or unreadable, or a list of ids
NoFile == [exists |-> FALSE]
File(ids) == [exists |-> TRUE, ids |-> ids]

\* get_selected_channel_ids: the ids of the file, else every catalog id
get_selected_channel_ids(file, catalog) ==
    IF file.exists THEN file.ids ELSE {catalog[i].id : i \in 1..Len(catalog)}

\* \w of a str pattern, over the characters of CharTable
IsWord(c) ==
    LET code == CharCode(c)
    IN  code \in (48..57) \cup (65..90) \cup {95} \cup (97..122)
\* \d and \s, over the characters of CharTable
DigitChars == {c \in {CharTable[i] : i \in 1..Len(CharTable)} : CharCode(c) \in 48..57}
SpaceChars == {" "}
\* str.lower() of one character
Lower(c) == IF CharCode(c) \in 65..90 THEN CharOf(CharCode(c) + 32) ELSE c

\* norm: re.sub(r"\W+", "", name or "").lower()
RECURSIVE norm(_)
norm(name) ==
    IF name = JsonNull \/ name = <<>> THEN <<>>
    ELSE IF IsWord(name[1]) THEN <<Lower(name[1])>> \o norm(Tail(name))
    ELSE norm(Tail(name))

\* the length of the longest run of characters of a class that ends at
\* position n
RECURSIVE RunBefore(_, _, _)
RunBefore(name, n, class) ==
    IF n >= 1 /\ name[n] \in class THEN 1 + RunBefore(name, n - 1, class) ELSE 0

\* the name without the match of \s*\( that ends at position open, if any
StripFrom(name, open) ==
    IF open >= 1 /\ name[open] = "("
    THEN SubSeq(name, 1, open - 1 - RunBefore(name, open - 1, SpaceChars))
    ELSE name

\* the name without the match that ends with \d+\) , given the number of
\* digits before the closing parenthesis
StripDigits(name, digits) ==
    IF digits = 0 THEN name ELSE StripFrom(name, Len(name) - 1 - digits)

\* suffix_re.sub("", name) with suffix_re = \s*\(\d+\)$
strip_suffix(name) ==
    IF name = <<>> \/ name[Len(name)] # ")" THEN name
    ELSE StripDigits(name, RunBefore(name, Len(name) - 1, DigitChars))

\* id_to_name = {ch.id: ch.name for ch in step_daddy.channels}
RECURSIVE id_to_name_of(_, _, _)
id_to_name_of(catalog, i, map) ==
    IF i > Len(catalog) THEN map
    ELSE id_to_name_of(catalog, i + 1, DictSet(map, catalog[i].id, catalog[i].name))

\* lines 282-288 without the preference of line 285-287: a key stays with
\* the first channel that has it
PutNameFirst(map, key, id, selected) ==
    IF key = <<>> THEN map
    ELSE IF key \notin DOMAIN map THEN DictSet(map, key, id)
    ELSE map

\* lines 282-288: an empty key is skipped; a key is given to the first
\* channel that has it, and taken over by a selected channel from one that
\* is not selected
PutName(map, key, id, selected) ==
    IF key = <<>> THEN map
    ELSE IF key \notin DOMAIN map \/ (id \in selected /\ map[key] \notin selected)
    THEN DictSet(map, key, id)
    ELSE map

\* lines 277-279: the name without its suffix is a variant unless empty
PutStripped(map, stripped, id, selected) ==
    IF stripped = <<>> THEN map ELSE PutName(map, norm(stripped), id, selected)

\* lines 274-288: the full name and the stripped name of every channel, in
\* catalog order; the two updates of a channel do not depend on their order
RECURSIVE name_to_id_of(_, _, _, _)
name_to_id_of(catalog, i, selected, map) ==
    IF i > Len(catalog) THEN map
    ELSE name_to_id_of(catalog, i + 1, selected,
            PutStripped(PutName(map, norm(catalog[i].name), catalog[i].id, selected),
                        strip_suffix(catalog[i].name), catalog[i].id, selected))

\* a channel reference of the schedule payload
Ref(channel_id, channel_name) ==
    [channel_id |-> channel_id, channel_name |-> channel_name]

\* lines 300-304: the reference under the id cid, as a list of one, or the
\* empty list for None
KeepSelected(cid, name, selected) ==
    IF cid \in selected THEN <<Ref(cid, name)>> ELSE <<>>

\* the same with the selection looked up under the id of the reference
RemapUnchecked(chan, known, mapped, selected) ==
    IF known # chan.channel_name
    THEN IF mapped # JsonNull /\ chan.channel_id \in selected
         THEN <<Ref(mapped, chan.channel_name)>>
         ELSE <<>>
    ELSE KeepSelected(chan.channel_id, chan.channel_name, selected)
\* lines 295-304, given id_to_name.get(cid) and name_to_id.get(norm(name))
Remap(chan, known, mapped, selected) ==
    IF known # chan.channel_name
    THEN IF mapped # JsonNull
         THEN KeepSelected(mapped, chan.channel_name, selected)
         ELSE <<>>
    ELSE KeepSelected(chan.channel_id, chan.channel_name, selected)

\* resolve(chan)
resolve(chan, id_to_name, name_to_id, selected) ==
    Remap(chan, DictGet(id_to_name, chan.channel_id, JsonNull),
          DictGet(name_to_id, norm(chan.channel_name), JsonNull), selected)

\* the value of an event's "channels" or "channels2": no such key, a list
\* of references, a dict of references, or something else (a string, null)
Absent == [type |-> "absent", keys |-> <<>>, items |-> <<>>]
Other == [type |-> "other", keys |-> <<>>, items |-> <<>>]
ListOf(items) == [type |-> "list", keys |-> <<>>, items |-> items]
DictOf(keys, items) == [type |-> "dict", keys |-> keys, items |-> items]

\* the concatenation of a list of lists
RECURSIVE Flatten(_)
Flatten(lists) ==
    IF lists = <<>> THEN <<>> ELSE Head(lists) \o Flatten(Tail(lists))

\* lines 306-310, given resolve(x) for every x of data: the resolved
\* references that are not None, in a list, or in a dict under their keys;
\* [] for anything that is neither
KeepResolved(data, resolved) ==
    IF data.type = "list" THEN ListOf(Flatten(resolved))
    ELSE IF data.type = "dict"
    THEN DictOf(Flatten([i \in 1..Len(data.keys) |->
                            IF resolved[i] # <<>> THEN <<data.keys[i]>> ELSE <<>>]),
                Flatten(resolved))
    ELSE ListOf(<<>>)

\* filter_channels(data)
filter_channels(data, id_to_name, name_to_id, selected) ==
    KeepResolved(data, [i \in 1..Len(data.items) |->
                           resolve(data.items[i], id_to_name, name_to_id, selected)])

\* "not ch": an empty list or dict
Falsy(ch) == ch.items = <<>>

\* an event of the schedule payload: its "time" and "event" (the title),
\* null when the key is missing, and its two channel values
TimedEvent(time, title, ch1, ch2) ==
    [time |-> time, event |-> title, channels |-> ch1, channels2 |-> ch2]
Event(ch1, ch2) == TimedEvent(JsonNull, JsonNull, ch1, ch2)

\* lines 322-329: the copy of the event with its channel values replaced,
\* or popped when empty
Copy(event, ch1, ch2) ==
    [event EXCEPT !.channels = IF Falsy(ch1) THEN Absent ELSE ch1,
                  !.channels2 = IF Falsy(ch2) THEN Absent ELSE ch2]

\* lines 319-330 left out of the event test: every event is kept
KeepEventAlways(event, ch1, ch2) == <<Copy(event, ch1, ch2)>>

\* lines 319-330: the events an event adds to new_events, none or one
KeepEvent(event, ch1, ch2) ==
    IF Falsy(ch1) /\ Falsy(ch2) THEN <<>> ELSE <<Copy(event, ch1, ch2)>>

\* lines 317-330 for one event
filter_event(event, id_to_name, name_to_id, selected) ==
    KeepEvent(event,
              filter_channels(event.channels, id_to_name, name_to_id, selected),
              filter_channels(event.channels2, id_to_name, name_to_id, selected))

\* lines 315-330: new_events of one category
filter_events(events, id_to_name, name_to_id, selected) ==
    Flatten([i \in 1..Len(events) |->
                filter_event(events[i], id_to_name, name_to_id, selected)])

\* lines 331-332: a category is stored if new_events is not empty
StoreCategories(new_events) ==
    [c \in {x \in DOMAIN new_events : new_events[x] # <<>>} |-> new_events[c]]

\* lines 314-332 for one day: the categories stored under it
filter_categories(categories, id_to_name, name_to_id, selected) ==
    StoreCategories([c \in DOMAIN categories |->
                        filter_events(categories[c], id_to_name, name_to_id, selected)])

\* line 332: setdefault creates a day when its first category is stored
StoreDays(stored) ==
    [d \in {x \in DOMAIN stored : DOMAIN stored[x] # {}} |-> stored[d]]

\* lines 312-333: filtered
filter_schedule(schedule, id_to_name, name_to_id, selected) ==
    StoreDays([d \in DOMAIN schedule |->
                  filter_categories(schedule[d], id_to_name, name_to_id, selected)])

\* lines 264-333: get_schedule after the fetch
reconcile(schedule, catalog, selected) ==
    filter_schedule(schedule, id_to_name_of(catalog, 1, EmptyDict),
                    name_to_id_of(catalog, 1, selected, EmptyDict), selected)

\* set_selected_channel_ids: cleaned = sorted({str(cid) for cid in ids if cid})
cleaned(ids) == {cid \in ids : cid # <<>>}

\* the ids a selection may hold: of catalog channels, or of a channel that
\* is in no catalog (any more)
SelectableIds == {<<>>, <<"1">>, <<"2">>, <<"9">>}

\* the catalogs load_channels may have published
ScheduleCatalogs ==
    {Finalize(d) : d \in DictsOver({<<"1">>, <<"2">>}, {<<"X">>, <<"+">>})}

\* the references of the upstream schedule: the name may be null
RefIds == {<<"1">>, <<"2">>, <<"9">>}
RefNames == {<<"X">>, <<"x">>, <<"+">>, JsonNull}
Refs == {Ref(i, n) : i \in RefIds, n \in RefNames}

\* the references that come second in an event
SecondRefs == {Ref(<<"1">>, <<"X">>), Ref(<<"9">>, <<"+">>)}

ChannelValues ==
    {Absent, Other, ListOf(<<>>)}
    \cup {ListOf(<<r>>) : r \in Refs}
    \cup {ListOf(<<r1, r2>>) : r1 \in Refs, r2 \in SecondRefs}
    \cup {DictOf(<<"a">>, <<r>>) : r \in Refs}
SingleLists == {ListOf(<<r>>) : r \in Refs}
Events ==
    {Event(ch1, ch2) : ch1 \in ChannelValues,
                       ch2 \in {Absent} \cup {ListOf(<<r>>) : r \in SecondRefs}}
SmallEvents == {Event(ch1, Absent) : ch1 \in SingleLists}

Days == {"day1", "day2"}
Categories == {"Soccer", "Tennis"}

\* a schedule of one day and one category
OneCategory(events) == [d \in {"day1"} |-> [c \in {"Soccer"} |-> events]]
\* the schedule payloads: empty, one event, or two events in one category,
\* in two categories of a day, or on two days
Schedules ==
    {EmptyDict, [d \in {"day1"} |-> EmptyDict], OneCategory(<<>>)}
    \cup {OneCategory(<<e>>) : e \in Events}
    \cup {OneCategory(<<e1, e2>>) : e1 \in SmallEvents, e2 \in SmallEvents}
    \cup {[d \in {"day1"} |-> [c \in Categories |-> IF c = "Soccer" THEN <<e1>> ELSE <<e2>>]] :
            e1 \in SmallEvents, e2 \in SmallEvents}
    \cup {[d \in Days |-> [c \in {"Soccer"} |-> IF d = "day1" THEN <<e1>> ELSE <<e2>>]] :
            e1 \in SmallEvents, e2 \in SmallEvents}
ScheduleAnswers == {Failure} \cup {Payload(s) : s \in Schedules}

\* no call of get_schedule on record
NoCall == [called |-> FALSE, schedule |-> Failure, selected |-> {}, result |-> EmptyDict]

\* the generate_guide calls that may be waiting for the schedule at once
MaxGuideTasks == 2

\* guide.xml, missing or with the document last written
NoGuide == [written |-> FALSE, channels |-> <<>>, programmes |-> <<>>]
Written(document) ==
    [written |-> TRUE, channels |-> document.channels,
     programmes |-> document.programmes]

\* no generate_guide has ended yet
NoRun ==
    [ran |-> FALSE, schedule |-> Failure, selected |-> {}, filtered |-> EmptyDict,
     written |-> FALSE, previous |-> NoGuide]

\* set_selected_channel_ids(ids) writes the selection file and starts a
\* generate_guide task (lines 127-131)
SetSelected(ids) ==
    /\ ~gs.called
    /\ ~gg.ran
    /\ guide_tasks < MaxGuideTasks
    /\ channel_file' = File(cleaned(ids))
    /\ guide_tasks' = guide_tasks + 1
    /\ UNCHANGED <<gs, guide_file, gg, cipherVars, catalogVars, enumVars, streamVars, rewriteVars, loopVars, fetchVars, bundleVars, callsVars, proxyVars, timerVars,
                   loadsVars, playlistVars, regenVars>>

\* get_schedule(): the upstream answers; on a failure {} is returned, else
\* the selection and the catalog are read and the payload is filtered
GetSchedule(answer) ==
    /\ ~gs.called
    /\ gs' = IF ~answer.ok
             THEN [called |-> TRUE, schedule |-> answer, selected |-> {},
                   result |-> EmptyDict]
             ELSE LET selected == get_selected_channel_ids(channel_file, channels)
                  IN  [called |-> TRUE, schedule |-> answer, selected |-> selected,
                       result |-> reconcile(answer.entries, channels, selected)]
    /\ UNCHANGED <<channel_file, cipherVars, catalogVars, enumVars, streamVars, guideVars, rewriteVars, loopVars, fetchVars, bundleVars, callsVars, proxyVars, timerVars,
                   loadsVars, playlistVars, regenVars>>

\* the result of the call has been delivered to its caller
ScheduleDelivered ==
    /\ gs.called
    /\ gs' = NoCall
    /\ UNCHANGED <<channel_file, cipherVars, catalogVars, enumVars, streamVars, guideVars, rewriteVars, loopVars, fetchVars, bundleVars, callsVars, proxyVars, timerVars,
                   loadsVars, playlistVars, regenVars>>

ScheduleNext ==
    \/ \E ids \in SUBSET SelectableIds : SetSelected(ids)
    \/ \E answer \in ScheduleAnswers : GetSchedule(answer)
    \/ ScheduleDelivered

(***************************************************************************)
(* backend.py: generate_guide.  Day labels and times are strings; dates    *)
(* follow datetime's proleptic Gregorian calendar.                         *)
(***************************************************************************)
\* the value of a decimal digit, and the digit of a value
DigitValue(c) == CharCode(c) - 48
DigitOf(n) == CharOf(48 + n)

\* the positions at which sep occurs in text
Occurrences(text, sep) ==
    {i \in 1..(Len(text) - Len(sep) + 1) : SubSeq(text, i, i + Len(sep) - 1) = sep}

\* text.split(sep), with sep of any length
RECURSIVE Split(_, _)
Split(text, sep) ==
    IF Occurrences(text, sep) = {} THEN <<text>>
    ELSE <<SubSeq(text, 1, FirstOf(Occurrences(text, sep)) - 1)>>
         \o Split(SubSeq(text, FirstOf(Occurrences(text, sep)) + Len(sep), Len(text)), sep)

\* the value of a run of digits, most significant first
RECURSIVE DigitsValue(_, _)
DigitsValue(digits, acc) ==
    IF digits = <<>> THEN acc
    ELSE DigitsValue(Tail(digits), (10 * acc) + DigitValue(Head(digits)))

AllDigits(text) == text # <<>> /\ \A i \in 1..Len(text) : text[i] \in DigitChars

\* a conversion that raised ValueError, or its value
NoValue == [ok |-> FALSE, value |-> 0]
Value(v) == [ok |-> TRUE, value |-> v]

\* int(text): an optional sign and decimal digits
int(text) ==
    IF AllDigits(text) THEN Value(DigitsValue(text, 0))
    ELSE IF text # <<>> /\ text[1] \in {"+", "-"} /\ AllDigits(Tail(text))
    THEN Value(IF text[1] = "-" THEN 0 - DigitsValue(Tail(text), 0)
               ELSE DigitsValue(Tail(text), 0))
    ELSE NoValue

\* datetime's calendar
MAXYEAR == 9999
IsLeap(year) == (year % 4 = 0) /\ ((year % 100 # 0) \/ (year % 400 = 0))
DaysInMonth(year, month) ==
    IF month = 2 THEN (IF IsLeap(year) THEN 29 ELSE 28)
    ELSE IF month \in {4, 6, 9, 11} THEN 30 ELSE 31
\* the days before January 1st of a year, year 1 being the first
DaysBeforeYear(year) ==
    ((year - 1) * 365) + ((year - 1) \div 4) - ((year - 1) \div 100) + ((year - 1) \div 400)
RECURSIVE DaysBeforeMonth(_, _)
DaysBeforeMonth(year, month) ==
    IF month = 1 THEN 0
    ELSE DaysBeforeMonth(year, month - 1) + DaysInMonth(year, month - 1)

Date(year, month, day) == [year |-> year, month |-> month, day |-> day]
IsDate(year, month, day) ==
    /\ year \in 1..MAXYEAR
    /\ month \in 1..12
    /\ day \in 1..DaysInMonth(year, month)

\* date.toordinal()
toordinal(date) ==
    DaysBeforeYear(date.year) + DaysBeforeMonth(date.year, date.month) + date.day

\* the month and day of the n-th day (from 0) of a year
RECURSIVE MonthAndDay(_, _, _)
MonthAndDay(year, month, n) ==
    IF n < DaysInMonth(year, month) THEN Date(year, month, n + 1)
    ELSE MonthAndDay(year, month + 1, n - DaysInMonth(year, month))

\* the year of day n (from 0, as days before it), searched from a guess
\* that is never too late
RECURSIVE YearOf(_, _)
YearOf(year, n) ==
    IF n < DaysBeforeYear(year + 1) THEN year ELSE YearOf(year + 1, n)

\* date.fromordinal(n)
fromordinal(n) ==
    MonthAndDay(YearOf(((n - 1) \div 366) + 1, n - 1),
                1,
                (n - 1) - DaysBeforeYear(YearOf(((n - 1) \div 366) + 1, n - 1)))


\* str.strip() of the spaces at both ends
RECURSIVE LStrip(_)
LStrip(text) ==
    IF text # <<>> /\ Head(text) \in SpaceChars THEN LStrip(Tail(text)) ELSE text
RECURSIVE RStrip(_)
RStrip(text) ==
    IF text # <<>> /\ text[Len(text)] \in SpaceChars
    THEN RStrip(SubSeq(text, 1, Len(text) - 1)) ELSE text

\* lines 437-445, given time_str.split(":") when time_str is a string that
\* is not empty and the int() of its parts: the event is skipped unless
\* there are two parts and both are integers
TimeFields(parts, values) ==
    IF Len(parts) = 2 /\ \A i \in 1..Len(parts) : values[i].ok
    THEN [kind |-> "at", hour |-> values[1].value, minute |-> values[2].value]
    ELSE [kind |-> "skip", hour |-> 0, minute |-> 0]

ParsedParts(parts) ==
    TimeFields(parts, [i \in 1..Len(parts) |-> int(RStrip(LStrip(parts[i])))])

\* lines 437-445: event.get("time") read as hour and minute, or the event
\* skipped
parse_time(time_str) ==
    IF time_str = JsonNull \/ time_str = <<>>
    THEN [kind |-> "skip", hour |-> 0, minute |-> 0]
    ELSE ParsedParts(Split(time_str, <<":">>))

\* a datetime in UTC, to the minute
DateTime(date, hour, minute) ==
    [year |-> date.year, month |-> date.month, day |-> date.day,
     hour |-> hour, minute |-> minute]

\* an exception that ends generate_guide, or the value computed
Raised(error) == [ok |-> FALSE, error |-> error]
Returns(value) == [ok |-> TRUE, value |-> value]

\* dateutil's order of three numbers when the last is the year and
\* dayfirst is set: day-month-year unless only month-day-year can be a date
DayMonthYear(n) ==
    IF n[1] > 12 \/ n[2] <= 12 THEN Date(n[3], n[2], n[1])
    ELSE Date(n[3], n[1], n[2])

CheckedDate(date) ==
    IF IsDate(date.year, date.month, date.day) THEN Returns(date)
    ELSE Raised("ParserError")

\* parser.parse(text, dayfirst=True) for a text "DD-MM-YYYY"; any other text
\* of the day labels has no date in it
parse_dayfirst(parts) ==
    IF /\ Len(parts) = 3
       /\ \A i \in 1..Len(parts) : AllDigits(parts[i])
       /\ Len(parts[1]) = 2 /\ Len(parts[2]) = 2 /\ Len(parts[3]) = 4
    THEN CheckedDate(DayMonthYear([i \in 1..3 |-> DigitsValue(parts[i], 0)]))
    ELSE Raised("ParserError")

\* line 434: date = parser.parse(day.split(" - ")[0], dayfirst=True)
parse_day(day) == parse_dayfirst(Split(Split(day, <<" ", "-", " ">>)[1], <<"-">>))

\* line 446: date.replace(hour=hour, minute=minute, tzinfo=utc)
replace(date, hour, minute) ==
    IF hour \in 0..23 /\ minute \in 0..59 THEN Returns(DateTime(date, hour, minute))
    ELSE Raised("ValueError")

\* line 447: start + timedelta(hours=1), given the day number and the hour
\* of the sum
OnDay(ordinal, hour, minute) ==
    IF ordinal > toordinal(Date(MAXYEAR, 12, 31)) THEN Raised("OverflowError")
    ELSE Returns(DateTime(fromordinal(ordinal), hour, minute))

\* line 447 without the carry into the next day
plus_one_hour_same_day(start) ==
    Returns([start EXCEPT !.hour = (start.hour + 1) % 24])

plus_one_hour(start) ==
    OnDay(toordinal(start) + ((start.hour + 1) \div 24), (start.hour + 1) % 24,
          start.minute)

\* "%02d"
TwoDigits(n) == <<DigitOf(n \div 10), DigitOf(n % 10)>>

\* strftime("%Y%m%d%H%M%S +0000") of a year of four digits
strftime(t) ==
    Decimal(t.year) \o TwoDigits(t.month) \o TwoDigits(t.day) \o TwoDigits(t.hour)
    \o TwoDigits(t.minute) \o <<"0", "0", " ", "+", "0", "0", "0", "0">>


\* the days of a schedule payload and the categories of a day, in the order
\* in which the payload lists them
LeastDay(days) == CHOOSE d \in days : \A e \in days : d = e \/ StrLess(d, e)
RECURSIVE DayOrder(_)
DayOrder(days) ==
    IF days = {} THEN <<>>
    ELSE <<LeastDay(days)>> \o DayOrder(days \ {LeastDay(days)})
CategoryOrder(categories) ==
    SelectSeq(<<"Soccer", "Tennis">>, LAMBDA c : c \in categories)


\* the outcome of a list of steps: the first exception raised, or the
\* records of all the steps
Combine(results) ==
    IF \E i \in 1..Len(results) : ~results[i].ok
    THEN results[FirstOf({i \in 1..Len(results) : ~results[i].ok})]
    ELSE Returns(Flatten([i \in 1..Len(results) |-> results[i].value]))

\* iter_channels(data): a list, the values of a dict, or []
iter_channels(data) == data.items

\* lines 448-458: the programme of one channel of an event, with the
\* reference that ensure_channel is given
Programme(start, stop, channel, category, title) ==
    [start |-> strftime(start), stop |-> strftime(stop),
     channel |-> channel.channel_id, category |-> category,
     title |-> IF title = JsonNull \/ title = <<>> THEN <<"Unknown">> ELSE title,
     ref |-> channel]

\* lines 447-458, given stop
WithStop(start, stop, sources, category, title) ==
    IF ~stop.ok THEN stop
    ELSE Returns([i \in 1..Len(sources) |->
                     Programme(start, stop.value, sources[i], category, title)])

\* lines 446-458, given start
WithStart(start, event, category) ==
    IF ~start.ok THEN start
    ELSE WithStop(start.value, plus_one_hour(start.value),
                  iter_channels(event.channels) \o iter_channels(event.channels2),
                  category, event.event)

\* lines 437-458 for one event, given its time
WithTime(time, date, event, category) ==
    IF time.kind = "skip" THEN Returns(<<>>)
    ELSE WithStart(replace(date, time.hour, time.minute), event, category)

\* lines 436-458 for the events of one category
CategoryProgrammes(date, category, events) ==
    Combine([i \in 1..Len(events) |->
                WithTime(parse_time(events[i].time), date, events[i], category)])

\* lines 435-458, given the date of the day
WithDate(date, categories, order) ==
    IF ~date.ok THEN date
    ELSE Combine([i \in 1..Len(order) |->
                     CategoryProgrammes(date.value, order[i], categories[order[i]])])

\* lines 433-458: the programmes of the schedule, or the exception raised
Programmes(schedule, order) ==
    Combine([i \in 1..Len(order) |->
                WithDate(parse_day(order[i]), schedule[order[i]],
                         CategoryOrder(DOMAIN schedule[order[i]]))])

\* a channel record of the guide
ChannelRecord(id, name) == [id |-> id, name |-> name]

\* lines 407-414: the records of the catalog channels that are selected
KnownChannels(catalog, selected) ==
    [i \in 1..Len(SelectSeq(catalog, LAMBDA ch : ch.id \in selected)) |->
        ChannelRecord(SelectSeq(catalog, LAMBDA ch : ch.id \in selected)[i].id,
                      SelectSeq(catalog, LAMBDA ch : ch.id \in selected)[i].name)]

\* line 420: display_names.get(cid) or channel.get("channel_name", cid)
DisplayName(known, channel) ==
    IF known # JsonNull /\ known # <<>> THEN known ELSE channel.channel_name

\* ensure_channel without the test of added_channels, naming the channel
\* as the schedule does
ensure_channel_again(records, channel, display_names, selected) ==
    IF channel.channel_id \in selected
    THEN Append(records, ChannelRecord(channel.channel_id, channel.channel_name))
    ELSE records

\* ensure_channel(channel), lines 416-422, on the records added so far
ensure_channel(records, channel, display_names, selected) ==
    IF /\ channel.channel_id # JsonNull /\ channel.channel_id # <<>>
       /\ channel.channel_id \in selected
       /\ \A i \in 1..Len(records) : records[i].id # channel.channel_id
    THEN Append(records,
                ChannelRecord(channel.channel_id,
                              DisplayName(DictGet(display_names, channel.channel_id,
                                                  JsonNull), channel)))
    ELSE records

\* the calls of ensure_channel, one before each programme
RECURSIVE EnsureChannels(_, _, _, _, _)
EnsureChannels(records, programmes, i, display_names, selected) ==
    IF i > Len(programmes) THEN records
    ELSE EnsureChannels(ensure_channel(records, programmes[i].ref, display_names,
                                       selected),
                        programmes, i + 1, display_names, selected)

\* the guide document: its channel records and its programme records
Guide(channel_records, programmes) ==
    [channels |-> channel_records,
     programmes |-> [i \in 1..Len(programmes) |->
                        [start |-> programmes[i].start, stop |-> programmes[i].stop,
                         channel |-> programmes[i].channel,
                         category |-> programmes[i].category,
                         title |-> programmes[i].title]]]

\* the same without ensure_channel: only the catalog channels have records
WithProgrammesKnownOnly(programmes, catalog, selected) ==
    IF ~programmes.ok THEN programmes
    ELSE Returns(Guide(KnownChannels(catalog, selected), programmes.value))
\* lines 402-460, given the programmes: the document that is written, or
\* the exception that ends the generation before anything is written
WithProgrammes(programmes, catalog, selected) ==
    IF ~programmes.ok THEN programmes
    ELSE Returns(Guide(EnsureChannels(KnownChannels(catalog, selected),
                                      programmes.value, 1,
                                      id_to_name_of(catalog, 1, EmptyDict), selected),
                       programmes.value))

\* generate_guide after get_schedule: lines 400-460
generate_guide(schedule, catalog, selected) ==
    WithProgrammes(Programmes(schedule, DayOrder(DOMAIN schedule)), catalog, selected)


\* the day labels of the upstream schedule, "DD-MM-YYYY - Weekday"
DayLabel(day, month, year) ==
    TwoDigits(day) \o <<"-">> \o TwoDigits(month) \o <<"-">> \o Decimal(year)
    \o <<" ", "-", " ", "M">>
\* first and last days of months and years, leap days, the last day of
\* datetime, a day that no month has, and a label with no date in it
GuideDays ==
    {DayLabel(d[1], d[2], d[3]) :
        d \in {<<1, 1, 2024>>, <<31, 1, 2024>>, <<28, 2, 2024>>, <<29, 2, 2024>>,
               <<28, 2, 2023>>, <<30, 4, 2024>>, <<31, 12, 2024>>, <<1, 13, 2024>>,
               <<29, 2, 2023>>, <<31, 12, 9999>>}}
    \cup {<<"x">>}
NewYear == DayLabel(1, 1, 2024)
NewYearsEve == DayLabel(31, 12, 2024)

\* the "time" of an event: missing, empty, well formed, or malformed
GuideTimes ==
    {JsonNull, <<>>,
     <<"1", "2", ":", "0", "0">>, <<"0", "0", ":", "0", "0">>,
     <<"2", "3", ":", "3", "0">>, <<"2", "3", ":", "5", "9">>,
     <<"1", "2", "0", "0">>, <<"x", ":", "0", "0">>,
     <<"1", "2", ":", "0", "0", ":", "0", "0">>, <<"1", ":", "5">>,
     <<"2", "4", ":", "0", "0">>, <<"1", "2", ":", "6", "0">>,
     <<"-", "1", ":", "0", "0">>}
Noon == <<"1", "2", ":", "0", "0">>
Late == <<"2", "3", ":", "3", "0">>

OnOne == ListOf(<<Ref(<<"1">>, <<"X">>)>>)
OnTwo == ListOf(<<Ref(<<"2">>, <<"+">>)>>)

\* a schedule of one day with one category, and of two days
OneDay(day, events) == [d \in {day} |-> [c \in {"Soccer"} |-> events]]
TwoDays(day1, events1, day2, events2) ==
    [d \in {day1, day2} |-> [c \in {"Soccer"} |-> IF d = day1 THEN events1 ELSE events2]]

\* the schedule payloads given to generate_guide: one event on any day at
\* any time; an event at any time before another one of the same category,
\* of the next category, or of the next day; a day with no date after a good
\* one; events with any channel values
GuideSchedules ==
    {EmptyDict}
    \cup {OneDay(day, <<TimedEvent(time, <<"M">>, OnOne, Absent)>>) :
            day \in GuideDays, time \in GuideTimes}
    \cup {OneDay(NewYearsEve, <<TimedEvent(time, JsonNull, OnOne, Absent),
                                TimedEvent(Late, <<"M">>, OnTwo, Absent)>>) :
            time \in GuideTimes}
    \cup {[d \in {NewYearsEve} |->
            [c \in Categories |->
                IF c = "Soccer" THEN <<TimedEvent(time, <<"M">>, OnOne, Absent)>>
                ELSE <<TimedEvent(Noon, <<"M">>, OnTwo, Absent)>>]] :
            time \in GuideTimes}
    \cup {TwoDays(NewYear, <<TimedEvent(time, <<"M">>, OnOne, Absent)>>,
                  NewYearsEve, <<TimedEvent(Late, <<"M">>, OnTwo, Absent)>>) :
            time \in GuideTimes}
    \cup {TwoDays(NewYear, <<TimedEvent(Noon, <<"M">>, OnOne, Absent)>>,
                  <<"x">>, <<TimedEvent(Noon, <<"M">>, OnTwo, Absent)>>)}
    \cup {OneDay(NewYear, <<TimedEvent(Noon, <<"M">>, e.channels, e.channels2)>>) :
            e \in Events}
GuideAnswers == {Failure} \cup {Payload(s) : s \in GuideSchedules}

\* a guide written by an earlier generation, with a programme record
OldGuide ==
    Guide(<<ChannelRecord(<<"1">>, <<"X">>)>>,
          <<Programme(DateTime(Date(2023, 12, 31), 12, 0),
                      DateTime(Date(2023, 12, 31), 13, 0),
                      Ref(<<"1">>, <<"X">>), "Soccer", <<"M">>)>>)

\* the /guide.xml route, lines 465-470: generate_guide is called when there
\* is no guide.xml
GuideRequest ==
    /\ guide_file = NoGuide
    /\ ~gg.ran
    /\ guide_tasks < MaxGuideTasks
    /\ guide_tasks' = guide_tasks + 1
    /\ UNCHANGED <<guide_file, gg, cipherVars, catalogVars, enumVars, streamVars,
                   scheduleVars, rewriteVars, loopVars, fetchVars, bundleVars, callsVars, proxyVars, timerVars,
                   loadsVars, playlistVars, regenVars>>

\* what get_schedule returns to generate_guide, lines 258-333
get_schedule(answer, catalog, selected) ==
    IF ~answer.ok THEN EmptyDict ELSE reconcile(answer.entries, catalog, selected)

\* lines 399-461 once the schedule is there: the document is written
\* unless an exception was raised
Generated(answer, selected, filtered, outcome, previous) ==
    [ran |-> TRUE, schedule |-> answer, selected |-> selected, filtered |-> filtered,
     written |-> outcome.ok, previous |-> previous]
FileAfter(outcome, previous) ==
    IF outcome.ok THEN Written(outcome.value) ELSE previous

\* generate_guide from the answer of the upstream to its end: nothing is
\* awaited after the schedule request
Generate(answer, selected, filtered) ==
    /\ gg' = Generated(answer, selected, filtered,
                       generate_guide(filtered, channels, selected), guide_file)
    /\ guide_file' = FileAfter(generate_guide(filtered, channels, selected), guide_file)

GenerateGuide(answer) ==
    /\ guide_tasks > 0
    /\ ~gg.ran
    /\ guide_tasks' = guide_tasks - 1
    /\ Generate(answer, get_selected_channel_ids(channel_file, channels),
                get_schedule(answer, channels,
                             get_selected_channel_ids(channel_file, channels)))
    /\ UNCHANGED <<cipherVars, catalogVars, enumVars, streamVars, scheduleVars, rewriteVars, loopVars, fetchVars, bundleVars, callsVars, proxyVars, timerVars,
                   loadsVars, playlistVars, regenVars>>

GuideNext ==
    \/ \E ids \in SUBSET SelectableIds : SetSelected(ids)
    \/ GuideRequest
    \/ \E answer \in GuideAnswers : GenerateGuide(answer)



(***************************************************************************)
(* step_daddy.py: the rewrite of the playlist at the end of stream, and     *)
(* content_url.  Texts are sequences of code points.                       *)
(***************************************************************************)
\* "\n", "\r", '"' and the literals of lines 309-316
NL == <<10>>
CR == <<13>>
Quote == <<34>>
Http == <<104, 116, 116, 112>>
ExtXKey == <<35, 69, 88, 84, 45, 88, 45, 75, 69, 89, 58>>
UriEquals == <<85, 82, 73, 61, 34>>
SlashContent == <<47, 99, 111, 110, 116, 101, 110, 116, 47>>
SlashKey == <<47, 107, 101, 121, 47>>
Slash == <<47>>
\* config.api_url, here "http://a"
api_url == Http \o <<58, 47, 47, 97>>

\* the code point of a character of a token, and the character of a code
\* point ("@" for one that no token has)
TokenCode(c) ==
    IF c = "=" THEN 61
    ELSE IF SextetOf(c) < 26 THEN 65 + SextetOf(c)
    ELSE IF SextetOf(c) < 52 THEN 97 + (SextetOf(c) - 26)
    ELSE IF SextetOf(c) < 62 THEN 48 + (SextetOf(c) - 52)
    ELSE IF SextetOf(c) = 62 THEN 45 ELSE 95
TokenText(t) == [i \in 1..Len(t) |-> TokenCode(t[i])]
TokenChar(code) ==
    IF \E c \in UrlChars \cup {"="} : TokenCode(c) = code
    THEN CHOOSE c \in UrlChars \cup {"="} : TokenCode(c) = code
    ELSE "@"
TokenOf(text) == [i \in 1..Len(text) |-> TokenChar(text[i])]

\* str.startswith
StartsWith(text, prefix) ==
    Len(text) >= Len(prefix) /\ SubSeq(text, 1, Len(prefix)) = prefix

\* the positions of a text where a line ends: a "\n", or a "\r" that no
\* "\n" follows
LineEndsIn(text) ==
    {i \in 1..Len(text) :
        \/ text[i] = 10
        \/ text[i] = 13 /\ (i = Len(text) \/ text[i + 1] # 10)}
\* the k-th line end of a text, 0 for k = 0
LineEndAt(text, k) ==
    IF k = 0 THEN 0
    ELSE CHOOSE e \in LineEndsIn(text) :
            Cardinality({x \in LineEndsIn(text) : x <= e}) = k
\* the line between two line ends, without the "\r" of a "\r\n"
LineBetween(text, from, to) ==
    IF text[to] = 10 /\ to - 1 > from /\ text[to - 1] = 13
    THEN SubSeq(text, from + 1, to - 2)
    ELSE SubSeq(text, from + 1, to - 1)
\* what follows the last line end of a text, as a line if it is not empty
LastLine(text, from) ==
    IF from < Len(text) THEN <<SubSeq(text, from + 1, Len(text))>> ELSE <<>>

\* str.splitlines() of a text whose line ends are "\n", "\r\n" or "\r"
splitlines(text) ==
    [k \in 1..Cardinality(LineEndsIn(text)) |->
        LineBetween(text, LineEndAt(text, k - 1), LineEndAt(text, k))]
    \o LastLine(text, LineEndAt(text, Cardinality(LineEndsIn(text))))

\* old.join(text) with new in place of old: new before every character and
\* at the end
Interleave(text, new) ==
    Flatten([i \in 1..Len(text) |-> new \o <<text[i]>>]) \o new

\* str.replace(old, new): every occurrence from the left, none overlapping;
\* an empty old is found before every character and at the end
RECURSIVE str_replace(_, _, _)
str_replace(text, old, new) ==
    IF old = <<>> THEN Interleave(text, new)
    ELSE IF Occurrences(text, old) = {} THEN text
    ELSE SubSeq(text, 1, FirstOf(Occurrences(text, old)) - 1) \o new
         \o str_replace(SubSeq(text, FirstOf(Occurrences(text, old)) + Len(old),
                               Len(text)), old, new)

\* re.search(r'URI="(.*?)"', line): the text between the first URI=" that a
\* quote follows and that quote, in a list, or the empty list
UriAfter(rest) ==
    IF Occurrences(rest, Quote) = {} THEN <<>>
    ELSE <<SubSeq(rest, 1, FirstOf(Occurrences(rest, Quote)) - 1)>>
UriMatch(line) ==
    IF Occurrences(line, UriEquals) = {} THEN <<>>
    ELSE UriAfter(SubSeq(line, FirstOf(Occurrences(line, UriEquals)) + Len(UriEquals),
                         Len(line)))

\* lines 310-314, given the match
KeyLine(line, match, key, netloc) ==
    IF match = <<>> THEN line
    ELSE str_replace(line, match[1],
                     api_url \o SlashKey \o TokenText(encrypt(key, match[1]))
                     \o Slash \o TokenText(encrypt(key, netloc)))

\* line 315 taken whatever config.proxy_content is
rewrite_line_always(line, key, netloc, proxy_content) ==
    IF StartsWith(line, ExtXKey) THEN KeyLine(line, UriMatch(line), key, netloc)
    ELSE IF StartsWith(line, Http)
    THEN api_url \o SlashContent \o TokenText(encrypt(key, line))
    ELSE line

\* lines 309-316 for one line
rewrite_line(line, key, netloc, proxy_content) ==
    IF StartsWith(line, ExtXKey) THEN KeyLine(line, UriMatch(line), key, netloc)
    ELSE IF StartsWith(line, Http) /\ proxy_content
    THEN api_url \o SlashContent \o TokenText(encrypt(key, line))
    ELSE line

\* "\n".join(playlist_lines) + "\n"
RECURSIVE join_lines(_)
join_lines(playlist_lines) ==
    IF playlist_lines = <<>> THEN NL
    ELSE IF Len(playlist_lines) = 1 THEN playlist_lines[1] \o NL
    ELSE playlist_lines[1] \o NL \o join_lines(Tail(playlist_lines))

\* lines 307-319: the playlist that stream returns for the text of m3u8
Rewritten(lines, key, netloc, proxy_content) ==
    join_lines([i \in 1..Len(lines) |-> rewrite_line(lines[i], key, netloc, proxy_content)])
rewrite(text, key, netloc, proxy_content) ==
    Rewritten(splitlines(text), key, netloc, proxy_content)

\* content_url(path), lines 341-348: any failure of decrypt is a ValueError
InvalidContentPath == [status |-> "Invalid content path"]
content_url(key, path) ==
    IF decrypt(key, path) = InvalidToken THEN InvalidContentPath ELSE decrypt(key, path)


\* no playlist has been rewritten; a lifespan task that has not run yet: where
\* it is, whether cancel() was called and CancelledError is still to be
\* thrown, where it was thrown, the seconds of the latest sleep, the local
\* dict of load_channels, whether the listing request of the latest run failed,
\* whether the latest run raised, the latest message of the loop
NotRewritten ==
    [done |-> FALSE, proxy_content |-> FALSE, lines |-> <<>>, playlist |-> <<>>,
     asked |-> 0, url |-> NotRun]
NotStarted ==
    [pc |-> "off", cancel |-> FALSE, at |-> "none", delay |-> 0, local |-> {},
     failed |-> FALSE, raised |-> FALSE, log |-> "none"]

\* the lines of the upstream playlist: segment URLs (one with a character
\* of three bytes), "http" alone, lines that only look like a URL, a
\* comment, key lines: without URI, with a URI that occurs nowhere else in
\* the line, with the URI "E", which the tag holds too, with an empty URI
HttpScheme == Http \o <<58, 47, 47>>
HttpsScheme == Http \o <<115, 58, 47, 47>>
PlaylistLines ==
    {HttpScheme \o <<115>>, HttpsScheme \o <<8364>>, Http, <<104, 116, 116>>,
     <<32>> \o HttpScheme, <<35>>, ExtXKey, ExtXKey \o UriEquals \o <<107>> \o Quote,
     ExtXKey \o UriEquals \o <<69>> \o Quote, ExtXKey \o UriEquals \o Quote}
LineEnds == {NL, CR \o NL}
\* the host of source_url
Netloc == <<115>>

\* the text of a playlist of lines, each with its line end but, maybe, the
\* last
PlaylistText(lines, end, last_end) ==
    IF Len(lines) = 1 THEN lines[1] \o last_end
    ELSE lines[1] \o end \o lines[2] \o last_end

\* the end of stream, lines 307-319: the fetched playlist is rewritten
RewritePlaylist(lines, text, proxy_content) ==
    /\ ~rw.done
    /\ rw' = [done |-> TRUE, proxy_content |-> proxy_content, lines |-> lines,
              playlist |-> rewrite(text, key_bytes, Netloc, proxy_content),
              asked |-> 0, url |-> NotRun]
    /\ UNCHANGED <<cipherVars, catalogVars, enumVars, streamVars, scheduleVars,
                   guideVars, loopVars, fetchVars, bundleVars, callsVars, proxyVars, timerVars,
                   loadsVars, playlistVars, regenVars>>

\* the lines of a playlist that was returned
LinesOf(playlist) == splitlines(playlist)

\* the path of a line that points to the /content route, in a list
ContentPath(line) ==
    IF StartsWith(line, api_url \o SlashContent)
    THEN <<TokenOf(SubSeq(line, Len(api_url \o SlashContent) + 1, Len(line)))>>
    ELSE <<>>

\* the player asks for the i-th line of the playlist: GET /content/{path},
\* backend.py lines 172-180
ContentRequest(i) ==
    /\ rw.done
    /\ rw.asked = 0
    /\ i \in 1..Len(LinesOf(rw.playlist))
    /\ ContentPath(LinesOf(rw.playlist)[i]) # <<>>
    /\ rw' = [rw EXCEPT !.asked = i,
                        !.url = content_url(key_bytes, ContentPath(LinesOf(rw.playlist)[i])[1])]
    /\ UNCHANGED <<cipherVars, catalogVars, enumVars, streamVars, scheduleVars,
                   guideVars, loopVars, fetchVars, bundleVars, callsVars, proxyVars, timerVars,
                   loadsVars, playlistVars, regenVars>>

RewriteNext ==
    \/ \E lines \in SeqsUpTo(PlaylistLines, 2) \ {<<>>}, end \in LineEnds,
          last_end \in LineEnds \cup {<<>>}, proxy_content \in BOOLEAN :
            RewritePlaylist(lines, PlaylistText(lines, end, last_end), proxy_content)
    \/ \E i \in 1..2 : ContentRequest(i)


(***************************************************************************)
(* backend.py: the lifespan tasks update_channels and auto_update_guide.   *)
(* A task is suspended at an await: a request of load_channels or of       *)
(* generate_guide, or asyncio.sleep.  After cancel() the next step of the  *)
(* task is CancelledError thrown at that await; CancelledError is not an   *)
(* Exception.                                                              *)
(***************************************************************************)
refresh_interval == 300
retry_delay == 60

\* a schedule payload with a channel whose Channel(...) raises at
\* step_daddy.py:125 (an entry of the metadata that is no dict of a logo
\* string and a list of tags): the exception leaves load_channels
Malformed == [ok |-> TRUE, malformed |-> TRUE]
LoopListings == {Failure, Payload({}), Payload({Channel(<<"1">>, <<"X">>)})}
LoopSchedules ==
    {Failure, Malformed, Payload({Channel(<<"1">>, <<>>), Channel(<<"2">>, <<"X">>)})}
\* the schedule given to generate_guide: none, an event at noon, an event
\* at "24:00"
LoopAnswers ==
    {Failure,
     Payload(OneDay(NewYear, <<TimedEvent(Noon, <<"M">>, OnOne, Absent)>>)),
     Payload(OneDay(NewYear, <<TimedEvent(<<"2", "4", ":", "0", "0">>, <<"M">>,
                                          OnOne, Absent)>>))}

\* load_channels is called at line 217: it awaits the listing page
load_started(s) ==
    [s EXCEPT !.pc = "listing", !.local = {}, !.failed = FALSE, !.raised = FALSE]
\* step_daddy.py:81-101: the listing request returned or raised
listing_returned(s, resp) ==
    [s EXCEPT !.pc = "schedule",
              !.local = IF resp = Failure THEN {} ELSE resp.entries,
              !.failed = (resp = Failure)]
\* asyncio.sleep(seconds) is awaited
sleeping(s, seconds, message) ==
    [s EXCEPT !.pc = "sleep", !.delay = seconds, !.local = {}, !.log = message]
\* lines 218 and 226 after load_channels returned; lines 222-225 after it
\* raised an Exception
refresh_ended(s, resp) ==
    IF resp = Malformed
    THEN sleeping([s EXCEPT !.raised = TRUE], retry_delay, "Failed to update channels")
    ELSE sleeping(s, refresh_interval, "Channels refreshed")
\* step_daddy.py:103-132: what load_channels publishes, unless it raised
Published(catalog, local, resp) ==
    IF resp = Malformed THEN catalog
    ELSE Finalize(IF resp = Failure THEN local ELSE MergeSchedule(local, resp.entries))

\* the task has ended
Ended(s, message) ==
    [s EXCEPT !.pc = "ended", !.cancel = FALSE, !.at = s.pc, !.local = {},
              !.log = message]
\* CancelledError caught as if it were an Exception: by load_channels
\* (step_daddy.py:86, 105), whose caller then goes on
update_channels_cancelled_as_exception(s) ==
    IF s.pc \in {"listing", "schedule"}
    THEN sleeping([s EXCEPT !.cancel = FALSE, !.at = s.pc, !.failed = TRUE],
                  refresh_interval, "Channels refreshed")
    ELSE Ended(s, s.log)
\* CancelledError thrown into update_channels: inside load_channels it passes
\* `except Exception` and is caught at line 219, which breaks; the sleeps of
\* lines 224 and 226 are under no handler of it; a task that was never run
\* does not start
update_channels_cancelled(s) ==
    IF s.pc \in {"listing", "schedule"}
    THEN Ended(s, "Channel refresh task cancelled")
    ELSE Ended(s, s.log)
\* CancelledError thrown into auto_update_guide: line 480 handles Exception
\* only, the sleep of line 487 is outside the try, line 490 breaks
auto_update_guide_cancelled(s) == Ended(s, s.log)

\* the first step of update_channels, and each wake from its sleep
UpdateChannelsRun ==
    /\ uc.pc = "off"
    /\ ~uc.cancel
    /\ uc' = load_started(uc)
    /\ UNCHANGED <<ag, cipherVars, catalogVars, enumVars, streamVars, scheduleVars,
                   guideVars, rewriteVars, fetchVars, bundleVars, callsVars, proxyVars, timerVars,
                   loadsVars, playlistVars, regenVars>>

ListingReturns(resp) ==
    /\ uc.pc = "listing"
    /\ ~uc.cancel
    /\ uc' = listing_returned(uc, resp)
    /\ UNCHANGED <<ag, cipherVars, catalogVars, enumVars, streamVars, scheduleVars,
                   guideVars, rewriteVars, fetchVars, bundleVars, callsVars, proxyVars, timerVars,
                   loadsVars, playlistVars, regenVars>>

\* the schedule request returned or raised: load_channels runs to its end and
\* update_channels to its next sleep
ScheduleReturns(resp) ==
    /\ uc.pc = "schedule"
    /\ ~uc.cancel
    /\ channels' = Published(channels, uc.local, resp)
    /\ uc' = refresh_ended(uc, resp)
    /\ UNCHANGED <<ag, lc_pc, lc_channels, lc_failed, before, seen, cipherVars,
                   enumVars, streamVars, scheduleVars, guideVars, rewriteVars, fetchVars, bundleVars, callsVars, proxyVars, timerVars,
                   loadsVars, playlistVars, regenVars>>

\* the sleep of line 224 or 226 is over: the loop calls load_channels again
UpdateChannelsWakes ==
    /\ uc.pc = "sleep"
    /\ ~uc.cancel
    /\ uc' = load_started(uc)
    /\ UNCHANGED <<ag, cipherVars, catalogVars, enumVars, streamVars, scheduleVars,
                   guideVars, rewriteVars, fetchVars, bundleVars, callsVars, proxyVars, timerVars,
                   loadsVars, playlistVars, regenVars>>

\* the lifespan ends: cancel() is called on the task
CancelUpdateChannels ==
    /\ uc.pc # "ended"
    /\ ~uc.cancel
    /\ uc' = [uc EXCEPT !.cancel = TRUE]
    /\ UNCHANGED <<ag, cipherVars, catalogVars, enumVars, streamVars, scheduleVars,
                   guideVars, rewriteVars, fetchVars, bundleVars, callsVars, proxyVars, timerVars,
                   loadsVars, playlistVars, regenVars>>

UpdateChannelsCancelled ==
    /\ uc.cancel
    /\ uc' = update_channels_cancelled(uc)
    /\ UNCHANGED <<ag, cipherVars, catalogVars, enumVars, streamVars, scheduleVars,
                   guideVars, rewriteVars, fetchVars, bundleVars, callsVars, proxyVars, timerVars,
                   loadsVars, playlistVars, regenVars>>

\* lines 476-487: the first step of auto_update_guide, with a well-formed
\* GUIDE_UPDATE; generate_guide is awaited if there is no guide.xml
AutoUpdateGuideRun ==
    /\ ag.pc = "off"
    /\ ~ag.cancel
    /\ ag' = [ag EXCEPT !.pc = IF guide_file.written THEN "sleep" ELSE "initial"]
    /\ UNCHANGED <<uc, cipherVars, catalogVars, enumVars, streamVars, scheduleVars,
                   guideVars, rewriteVars, fetchVars, bundleVars, callsVars, proxyVars, timerVars,
                   loadsVars, playlistVars, regenVars>>

\* generate_guide ends, lines 479-482 and 488-494: it has written guide.xml
\* or raised an Exception, which is logged; the loop sleeps until the next
\* GUIDE_UPDATE
guide_ended(s, outcome, message) ==
    [s EXCEPT !.pc = "sleep", !.raised = ~outcome.ok,
              !.log = IF outcome.ok THEN s.log ELSE message]
FailureMessage(s) ==
    IF s.pc = "initial" THEN "Initial guide generation failed"
    ELSE "Automatic guide update failed"
GuideReturns(answer) ==
    /\ ag.pc \in {"initial", "generate"}
    /\ ~ag.cancel
    /\ guide_file' =
         FileAfter(generate_guide(
                       get_schedule(answer, channels,
                                    get_selected_channel_ids(channel_file, channels)),
                       channels, get_selected_channel_ids(channel_file, channels)),
                   guide_file)
    /\ ag' = guide_ended(ag,
                 generate_guide(
                     get_schedule(answer, channels,
                                  get_selected_channel_ids(channel_file, channels)),
                     channels, get_selected_channel_ids(channel_file, channels)),
                 FailureMessage(ag))
    /\ UNCHANGED <<uc, guide_tasks, gg, cipherVars, catalogVars, enumVars, streamVars,
                   scheduleVars, rewriteVars, fetchVars, bundleVars, callsVars, proxyVars, timerVars,
                   loadsVars, playlistVars, regenVars>>

\* the sleep of line 487 is over: generate_guide is awaited
AutoUpdateGuideWakes ==
    /\ ag.pc = "sleep"
    /\ ~ag.cancel
    /\ ag' = [ag EXCEPT !.pc = "generate"]
    /\ UNCHANGED <<uc, cipherVars, catalogVars, enumVars, streamVars, scheduleVars,
                   guideVars, rewriteVars, fetchVars, bundleVars, callsVars, proxyVars, timerVars,
                   loadsVars, playlistVars, regenVars>>

CancelAutoUpdateGuide ==
    /\ ag.pc # "ended"
    /\ ~ag.cancel
    /\ ag' = [ag EXCEPT !.cancel = TRUE]
    /\ UNCHANGED <<uc, cipherVars, catalogVars, enumVars, streamVars, scheduleVars,
                   guideVars, rewriteVars, fetchVars, bundleVars, callsVars, proxyVars, timerVars,
                   loadsVars, playlistVars, regenVars>>

AutoUpdateGuideCancelled ==
    /\ ag.cancel
    /\ ag' = auto_update_guide_cancelled(ag)
    /\ UNCHANGED <<uc, cipherVars, catalogVars, enumVars, streamVars, scheduleVars,
                   guideVars, rewriteVars, fetchVars, bundleVars, callsVars, proxyVars, timerVars,
                   loadsVars, playlistVars, regenVars>>

LoopsNext ==
    \/ UpdateChannelsRun
    \/ \E resp \in LoopListings : ListingReturns(resp)
    \/ \E resp \in LoopSchedules : ScheduleReturns(resp)
    \/ UpdateChannelsWakes
    \/ CancelUpdateChannels
    \/ UpdateChannelsCancelled
    \/ AutoUpdateGuideRun
    \/ \E answer \in LoopAnswers : GuideReturns(answer)
    \/ AutoUpdateGuideWakes
    \/ CancelAutoUpdateGuide
    \/ AutoUpdateGuideCancelled


(***************************************************************************)
(* step_daddy.py: StepDaddy.schedule, one call.                            *)
(***************************************************************************)
\* the requests of a call: the JSON endpoint schedule-generated.php, and
\* HTML pages of the schedule
NoFetches == [json |-> 0, html |-> 0]
NoFetch ==
    [pc |-> "idle", sent |-> NoFetches, answer |-> [kind |-> "none"], outcome |-> NotRun]

\* what the GET of line 367 brings: a transport error, a status that
\* raise_for_status rejects, or a body: no JSON, JSON that is no object, or a
\* schedule
ErrorStatuses == {401, 403, 404, 500}
Status(code) == [kind |-> "status", code |-> code]
Body(json, data) == [kind |-> "body", json |-> json, data |-> data]
FetchAnswers ==
    {[kind |-> "curl_error"]}
    \cup {Status(code) : code \in ErrorStatuses}
    \cup {Body("no json", EmptyDict), Body("list", EmptyDict)}
    \cup {Body("dict", schedule) : schedule \in GuideSchedules}

\* the call raised, or returned a dict
FetchRaised(error) == [status |-> "raised", error |-> error]
FetchReturned(data) == [status |-> "returned", data |-> data]

\* lines 367-379 once the GET has ended
schedule_outcome(answer) ==
    IF answer.kind = "curl_error" THEN FetchRaised("CurlError")
    ELSE IF answer.kind = "status" THEN FetchRaised("HTTPError")
    ELSE IF answer.json = "no json"
    THEN FetchRaised("ValueError: Invalid schedule response received")
    ELSE IF answer.json = "list" THEN FetchReturned(EmptyDict)
    ELSE FetchReturned(answer.data)

\* schedule() is called: the GET of the JSON endpoint is awaited
FetchSchedule ==
    /\ sch.pc = "idle"
    /\ sch' = [sch EXCEPT !.pc = "json", !.sent.json = @ + 1]
    /\ UNCHANGED <<cipherVars, catalogVars, enumVars, streamVars, scheduleVars,
                   guideVars, rewriteVars, loopVars, bundleVars, callsVars, proxyVars, timerVars,
                   loadsVars, playlistVars, regenVars>>

\* the GET has ended: the call raises or returns, no other request is made
FetchAnswer(answer) ==
    /\ sch.pc = "json"
    /\ sch' = [sch EXCEPT !.pc = "ended", !.answer = answer,
                          !.outcome = schedule_outcome(answer)]
    /\ UNCHANGED <<cipherVars, catalogVars, enumVars, streamVars, scheduleVars,
                   guideVars, rewriteVars, loopVars, bundleVars, callsVars, proxyVars, timerVars,
                   loadsVars, playlistVars, regenVars>>

FetchNext ==
    \/ FetchSchedule
    \/ \E answer \in FetchAnswers : FetchAnswer(answer)


(***************************************************************************)
(* utils.py: decode_bundle.  Field values are sequences of code points; a  *)
(* candidate is given by what base64 and JSON decoding make of it.         *)
(***************************************************************************)
\* JSON values: json.loads of a candidate
JNull == [type |-> "null"]
JNum == [type |-> "num"]
JStr(text) == [type |-> "str", text |-> text]
JList(items) == [type |-> "list", items |-> items]
JObj(fields) == [type |-> "obj", fields |-> fields]

\* the keys of line 87 and their text
markers == <<"b_ts", "b_sig", "b_host", "b_rnd">>
KeyText(key) ==
    IF key = "b_ts" THEN <<98, 95, 116, 115>>
    ELSE IF key = "b_sig" THEN <<98, 95, 115, 105, 103>>
    ELSE IF key = "b_host" THEN <<98, 95, 104, 111, 115, 116>>
    ELSE <<98, 95, 114, 110, 100>>

\* the character base64.b64decode sees for a code point: "+" and "/" are of
\* the alphabet, "-" and "_" are not ("@" stands for what is discarded)
B64Char(code) ==
    IF code = 43 THEN "+"
    ELSE IF code = 47 THEN "/"
    ELSE IF code \in {45, 95} THEN "@"
    ELSE TokenChar(code)
\* value + "=" * (-len(value) % 4)
Pad4(text) == text \o [i \in 1..((4 - (Len(text) % 4)) % 4) |-> 61]
\* base64.b64decode(text), not validating: NONE for binascii.Error, and for
\* the ValueError of a str that is not ASCII
b64decode(text) ==
    IF \E i \in 1..Len(text) : text[i] > 127 THEN NONE
    ELSE a2b_base64([i \in 1..Len(text) |-> B64Char(text[i])], 1, 0, 0, 0, <<>>)
\* lines 68-69: the text a value decodes to, NONE if an exception is raised
DecodedBytes(bytes) == IF bytes = NONE THEN NONE ELSE Utf8Decode(bytes)
decode_value(text) == DecodedBytes(b64decode(Pad4(text)))

\* lines 66-73 with the nested objects decoded as well
\* lines 70-71: the value is kept when the decoding raised
DecodedOrKept(value, text) == IF text = NONE THEN value ELSE JStr(text)
RECURSIVE normalize_field_deep(_)
normalize_field_deep(value) ==
    IF value.type = "obj"
    THEN JObj([k \in DOMAIN value.fields |-> normalize_field_deep(value.fields[k])])
    ELSE IF value.type # "str" THEN value
    ELSE DecodedOrKept(value, decode_value(value.text))
\* lines 66-73: one item of data
normalize_field(value) ==
    IF value.type # "str" THEN value
    ELSE DecodedOrKept(value, decode_value(value.text))
\* normalize(data), lines 63-74
normalize(fields) == [k \in DOMAIN fields |-> normalize_field(fields[k])]

\* what line 78 and line 84 make of a candidate: an exception of the base64
\* or UTF-8 decoding, a JSONDecodeError, or a JSON value
NotBase64 == [type |-> "not base64"]
NotJson == [type |-> "not json"]

\* `key in data`, for data that can be searched
Has(data, key) ==
    IF data.type = "obj" THEN key \in DOMAIN data.fields
    ELSE IF data.type = "list" THEN \E i \in 1..Len(data.items) : data.items[i] = JStr(KeyText(key))
    ELSE Occurrences(data.text, KeyText(key)) # {}

\* parse_candidate, lines 76-89: None, the normalized dict, or an exception
\* that it does not catch
Nothing == [status |-> "none"]
Parsed(fields) == [status |-> "dict", fields |-> fields]
Escaped(error) == [status |-> "raised", error |-> error]
parse_candidate(decoded) ==
    IF decoded \in {NotBase64, NotJson} THEN Nothing
    ELSE IF decoded.type \in {"null", "num"}
    THEN Escaped("TypeError: argument of type is not iterable")
    ELSE IF ~(\E i \in 1..Len(markers) : Has(decoded, markers[i])) THEN Nothing
    ELSE IF decoded.type = "obj" THEN Parsed(normalize(decoded.fields))
    ELSE Escaped("AttributeError: object has no attribute 'items'")

\* decode_bundle has returned a dict, or an exception has left it
BundleReturned(fields, candidate) ==
    [status |-> "returned", bundle |-> fields, from |-> candidate]
NoBundle == [status |-> "returned", bundle |-> EmptyDict, from |-> Nothing]

\* lines 110-114: the candidates in the order in which the set yields them
RECURSIVE first_parsed(_)
\* lines 111-113: an exception leaves the loop; a dict that is not empty is
\* returned
after_candidate(order, decoded) ==
    IF decoded.status = "raised" THEN decoded
    ELSE IF decoded.status = "dict" /\ DOMAIN decoded.fields # {}
    THEN BundleReturned(decoded.fields, Head(order))
    ELSE first_parsed(Tail(order))
first_parsed(order) ==
    IF order = <<>> THEN NoBundle
    ELSE after_candidate(order, parse_candidate(Head(order).decoded))


\* a candidate: the pattern that found it (0 for response_text.strip(), 1 to
\* 5 for the patterns of lines 93-108 in their order) and what it decodes to
Candidate(pattern, decoded) == [pattern |-> pattern, decoded |-> decoded]
\* a response text: what all of it decodes to, and what the patterns find
Text(whole, found) == [whole |-> whole, found |-> found]
\* lines 91-108: the set of candidates
candidates(text) == {Candidate(0, text.whole)} \cup text.found

\* the orders in which the iteration of line 110 may yield a set of strings:
\* it follows their hashes, which are salted anew in every process
Orders(S) ==
    {order \in [1..Cardinality(S) -> S] :
        \A i, j \in 1..Cardinality(S) : order[i] = order[j] => i = j}

\* field values: "MQ==", "MQ", "Mg==", "Pj4+", "Pj4-", "/w==", "", "n-t",
\* "MTIz!", "4oKs", and a letter that is not ASCII
FieldTexts ==
    {<<77, 81, 61, 61>>, <<77, 81>>, <<77, 103, 61, 61>>, <<80, 106, 52, 43>>,
     <<80, 106, 52, 45>>, <<47, 119, 61, 61>>, <<>>, <<110, 45, 116>>,
     <<77, 84, 73, 122, 33>>, <<52, 111, 75, 115>>, <<233>>}
One == <<77, 81, 61, 61>>
Two == <<77, 103, 61, 61>>
Inner == JObj([k \in {"inner"} |-> JStr(One)])
\* the objects with a marker key: b_ts alone, or with a further field
FieldValues == {JStr(text) : text \in FieldTexts} \cup {JNum, Inner}
Bundles ==
    {[k \in {"b_ts"} |-> v] : v \in FieldValues}
    \cup {[k \in {"b_ts", "nested"} |-> IF k = "b_ts" THEN v ELSE w] :
            v \in {JStr(One), JNum}, w \in FieldValues}
BundleOne == JObj([k \in {"b_ts"} |-> JStr(One)])
BundleTwo == JObj([k \in {"b_ts"} |-> JStr(Two)])
Unmarked == JObj([k \in {"x"} |-> JStr(One)])

\* what a quoted literal of a page may decode to: one that begins with eyJ
\* (patterns 2 to 4) is no JSON or an object
Literals ==
    {Candidate(p, d) : p \in 1..5,
                       d \in {NotBase64, NotJson, BundleOne, BundleTwo, Unmarked}}
    \cup {Candidate(p, d) : p \in {1, 5},
                            d \in {JNum, JList(<<JStr(KeyText("b_ts"))>>)}}
\* the texts given to decode_bundle: a bare literal, or a page with one or
\* two quoted literals
BundleTexts ==
    {Text(d, {}) : d \in {NotBase64, NotJson, JNull, JNum, JList(<<>>),
                          JList(<<JStr(KeyText("b_ts"))>>), JStr(KeyText("b_sig")),
                          JStr(<<120>> \o KeyText("b_rnd")), JStr(<<120>>),
                          JObj(EmptyDict), Unmarked}}
    \cup {Text(JObj(b), {}) : b \in Bundles}
    \cup {Text(d, {l, m}) : d \in {NotBase64, NotJson}, l \in Literals, m \in Literals}

NoDecode == [done |-> FALSE, text |-> Text(NotJson, {}), order |-> <<>>, outcome |-> NotRun]

\* decode_bundle(response_text) from its call to its end
decode_bundle(text, order) ==
    [done |-> TRUE, text |-> text, order |-> order, outcome |-> first_parsed(order)]

DecodeBundle(text, order) ==
    /\ ~db.done
    /\ db' = decode_bundle(text, order)
    /\ UNCHANGED <<cipherVars, catalogVars, enumVars, streamVars, scheduleVars,
                   guideVars, rewriteVars, loopVars, fetchVars, callsVars, proxyVars, timerVars,
                   loadsVars, playlistVars, regenVars>>

BundleNext ==
    \E text \in BundleTexts : \E order \in Orders(candidates(text)) :
        DecodeBundle(text, order)


(***************************************************************************)
(* backend.py: the routes /key/{url}/{host} and /content/{path}, with      *)
(* StepDaddy.key.  A request is served once: its tokens are decrypted,     *)
(* then one upstream request is made.                                      *)
(***************************************************************************)
NoProxy ==
    [route |-> "none", pc |-> "idle", tokens |-> <<>>, sent |-> 0, target |-> NONE,
     status |-> 0]

\* StepDaddy.key, lines 324-331, with the host token left unchecked
InvalidKeyParameters == [status |-> "Invalid key parameters"]
key_parameters_of_url(k, url, host) ==
    IF decrypt(k, url) = InvalidToken THEN InvalidKeyParameters
    ELSE IF decrypt(k, url).text = <<>> THEN InvalidKeyParameters
    ELSE decrypt(k, url)
\* StepDaddy.key, lines 324-331: the URL to GET, or ValueError
key_parameters(k, url, host) ==
    IF decrypt(k, url) = InvalidToken \/ decrypt(k, host) = InvalidToken
    THEN InvalidKeyParameters
    ELSE IF decrypt(k, url).text = <<>> \/ decrypt(k, host).text = <<>>
    THEN InvalidKeyParameters
    ELSE decrypt(k, url)

\* the response to a request whose tokens were refused, or the upstream
\* request that is awaited
Refused(route, tokens, status) ==
    [route |-> route, pc |-> "done", tokens |-> tokens, sent |-> 0, target |-> NONE,
     status |-> status]
Upstream(route, tokens, target) ==
    [route |-> route, pc |-> "upstream", tokens |-> tokens, sent |-> 1,
     target |-> target, status |-> 0]
\* the route of lines 159-169 up to its await: every exception of key() is
\* answered with 500
key_route(k, url, host) ==
    IF key_parameters(k, url, host) = InvalidKeyParameters
    THEN Refused("key", <<url, host>>, 500)
    ELSE Upstream("key", <<url, host>>, key_parameters(k, url, host).text)
\* the route of lines 172-188 up to its await: a path that content_url
\* refuses is answered with 400
content_route(k, path) ==
    IF content_url(k, path) = InvalidContentPath
    THEN Refused("content", <<path>>, 400)
    ELSE Upstream("content", <<path>>, content_url(k, path).text)

\* lines 167-169 and 338; lines 189-211
UpstreamAnswers == {"error", "not_found", "ok"}
key_status(answer) == IF answer = "ok" THEN 200 ELSE 500
content_status(answer) ==
    IF answer = "error" THEN 502 ELSE IF answer = "not_found" THEN 404 ELSE 200

\* the tokens of a request: made up by the client, or issued by encrypt
ProxyTokens == ForgedTokens \cup {encrypt(key_bytes, s) : s \in Plaintexts}
HostTokens == {<<>>, <<"@">>, <<"Q", "Q">>, encrypt(key_bytes, <<65>>)}

KeyRequest(url, host) ==
    /\ px.pc = "idle"
    /\ px' = key_route(key_bytes, url, host)
    /\ UNCHANGED <<cipherVars, catalogVars, enumVars, streamVars, scheduleVars,
                   guideVars, rewriteVars, loopVars, fetchVars, bundleVars, callsVars,
                   timerVars, loadsVars, playlistVars, regenVars>>

ContentPathRequest(path) ==
    /\ px.pc = "idle"
    /\ px' = content_route(key_bytes, path)
    /\ UNCHANGED <<cipherVars, catalogVars, enumVars, streamVars, scheduleVars,
                   guideVars, rewriteVars, loopVars, fetchVars, bundleVars, callsVars,
                   timerVars, loadsVars, playlistVars, regenVars>>

\* the upstream request has ended: the response is made
UpstreamAnswer(answer) ==
    /\ px.pc = "upstream"
    /\ px' = [px EXCEPT !.pc = "done",
                        !.status = IF px.route = "key" THEN key_status(answer)
                                   ELSE content_status(answer)]
    /\ UNCHANGED <<cipherVars, catalogVars, enumVars, streamVars, scheduleVars,
                   guideVars, rewriteVars, loopVars, fetchVars, bundleVars, callsVars,
                   timerVars, loadsVars, playlistVars, regenVars>>

ProxyNext ==
    \/ \E url \in ProxyTokens, host \in HostTokens : KeyRequest(url, host)
    \/ \E path \in ProxyTokens : ContentPathRequest(path)
    \/ \E answer \in UpstreamAnswers : UpstreamAnswer(answer)


(***************************************************************************)
(* step_daddy.py: StepDaddy.stream called several times at once.  Each     *)
(* call is a coroutine; between two awaits of one call any other call may  *)
(* take its steps.                                                         *)
(***************************************************************************)
\* the calls in flight
CallIds == {"a", "b"}
CallIdle == [c \in CallIds |-> StreamIdle]
NoCalls == CallIdle

\* channel_id, key_marker, max_retries, source_response, source_url, attempt
\* and the responses are locals of stream (lines 192-305): a step of a call
\* assigns in its own frame; `attempt` kept on the StepDaddy object instead
own_but_attempt(calls, c, s) ==
    [d \in DOMAIN calls |-> IF d = c THEN s ELSE [calls[d] EXCEPT !.attempt = s.attempt]]
own(calls, c, s) == [calls EXCEPT ![c] = s]

\* lines 195-209: the call begins
stream_called(s, channel_id) ==
    IF channel_id = <<>> THEN Raise(s, "ValueError: Channel id is required")
    ELSE [Sent(s, "page") EXCEPT !.pc = "page", !.prefix = 1]

\* the answers the upstream gives to the calls
CallIframeAnswers ==
    {[status |-> "curl_error", marker |-> FALSE, key |-> FALSE, bundle |-> "missing"],
     [status |-> "ok", marker |-> FALSE, key |-> FALSE, bundle |-> "missing"],
     [status |-> "ok", marker |-> TRUE, key |-> TRUE, bundle |-> "incomplete"],
     [status |-> "ok", marker |-> TRUE, key |-> TRUE, bundle |-> "complete"]}
CallLookupAnswers == {"not_json", "server_key"}
CallPlaylistAnswers == {"curl_error", "ok"}

CallStream(c, channel_id) ==
    /\ rs[c].pc = "idle"
    /\ rs' = own(rs, c, stream_called(rs[c], channel_id))
    /\ UNCHANGED <<cipherVars, catalogVars, enumVars, streamVars, scheduleVars,
                   guideVars, rewriteVars, loopVars, fetchVars, bundleVars, proxyVars, timerVars,
                   loadsVars, playlistVars, regenVars>>

CallPageAnswer(c, answer) ==
    /\ rs[c].pc = "page"
    /\ rs' = own(rs, c, PageReturn(rs[c], answer))
    /\ UNCHANGED <<cipherVars, catalogVars, enumVars, streamVars, scheduleVars,
                   guideVars, rewriteVars, loopVars, fetchVars, bundleVars, proxyVars, timerVars,
                   loadsVars, playlistVars, regenVars>>

CallIframeAnswer(c, answer) ==
    /\ rs[c].pc = "iframe"
    /\ rs' = own(rs, c, IframeReturn(rs[c], answer))
    /\ UNCHANGED <<cipherVars, catalogVars, enumVars, streamVars, scheduleVars,
                   guideVars, rewriteVars, loopVars, fetchVars, bundleVars, proxyVars, timerVars,
                   loadsVars, playlistVars, regenVars>>

CallAuthAnswer(c, answer) ==
    /\ rs[c].pc = "auth"
    /\ rs' = own(rs, c, AuthReturn(rs[c], answer))
    /\ UNCHANGED <<cipherVars, catalogVars, enumVars, streamVars, scheduleVars,
                   guideVars, rewriteVars, loopVars, fetchVars, bundleVars, proxyVars, timerVars,
                   loadsVars, playlistVars, regenVars>>

CallLookupAnswer(c, answer) ==
    /\ rs[c].pc = "lookup"
    /\ rs' = own(rs, c, LookupReturn(rs[c], answer))
    /\ UNCHANGED <<cipherVars, catalogVars, enumVars, streamVars, scheduleVars,
                   guideVars, rewriteVars, loopVars, fetchVars, bundleVars, proxyVars, timerVars,
                   loadsVars, playlistVars, regenVars>>

CallPlaylistAnswer(c, answer) ==
    /\ rs[c].pc = "m3u8"
    /\ rs' = own(rs, c, PlaylistReturn(rs[c], answer))
    /\ UNCHANGED <<cipherVars, catalogVars, enumVars, streamVars, scheduleVars,
                   guideVars, rewriteVars, loopVars, fetchVars, bundleVars, proxyVars, timerVars,
                   loadsVars, playlistVars, regenVars>>

CallsNext ==
    \/ \E c \in CallIds, channel_id \in StreamChannelIds : CallStream(c, channel_id)
    \/ \E c \in CallIds, answer \in PageAnswers : CallPageAnswer(c, answer)
    \/ \E c \in CallIds, answer \in CallIframeAnswers : CallIframeAnswer(c, answer)
    \/ \E c \in CallIds, answer \in AuthAnswers : CallAuthAnswer(c, answer)
    \/ \E c \in CallIds, answer \in CallLookupAnswers : CallLookupAnswer(c, answer)
    \/ \E c \in CallIds, answer \in CallPlaylistAnswers : CallPlaylistAnswer(c, answer)


(***************************************************************************)
(* backend.py: auto_update_guide and its clock. Time is counted in whole   *)
(* hours from a midnight UTC; GUIDE_UPDATE is a full hour; a generation    *)
(* that lasts less than an hour lasts 0.                                   *)
(***************************************************************************)
\* the hours up to which the timer is followed
MaxHours == 80
\* ZoneInfo(config.timezone): UTC; a zone that sets its clocks back by one
\* hour at 01:00 UTC of the second day (03:00 becomes 02:00), and one that
\* sets them forward then (02:00 becomes 03:00)
Utc == [at |-> 0, before |-> 0, after |-> 0]
SetsBack == [at |-> 25, before |-> 2, after |-> 1]
SetsForward == [at |-> 25, before |-> 1, after |-> 2]
Zones == {Utc, SetsBack, SetsForward}
\* the hours of GUIDE_UPDATE and those at which the task starts
GuideHours == {2, 3, 12}
StartHours == {0, 5, 14}
Durations == {0, 1}
utcoffset(zone, t) == IF t < zone.at THEN zone.before ELSE zone.after
\* datetime.now(tz): the wall clock of the zone at the instant t
now(zone, t) == t + utcoffset(zone, t)
\* now.replace(hour=hour, minute=minute, second=0, microsecond=0)
at_hour(wall, hour) == (wall \div 24) * 24 + hour
\* lines 484-486: two datetimes of one zone are compared by their wall clock
target(wall, hour) ==
    IF at_hour(wall, hour) <= wall THEN at_hour(wall, hour) + 24
    ELSE at_hour(wall, hour)
\* line 487: (target - now).total_seconds() is the difference of the wall
\* clocks of two datetimes of one zone, and asyncio.sleep waits that long
wake(zone, t, hour) == t + (target(now(zone, t), hour) - now(zone, t))

NoTimer ==
    [pc |-> "off", zone |-> Utc, hour |-> 0, t |-> 0, since |-> 0, wake |-> 0,
     exists |-> FALSE, existed |-> FALSE, initial |-> FALSE, runs |-> <<>>,
     failed |-> FALSE]
\* lines 483-487: the loop computes the next target and sleeps
timer_sleeps(s, t) ==
    [s EXCEPT !.pc = "sleep", !.t = t, !.wake = wake(s.zone, t, s.hour)]

\* lines 475-478: the task starts; generate_guide is awaited if there is no
\* guide.xml
TimerStarts ==
    /\ tm.pc = "off"
    /\ tm' = IF tm.exists THEN timer_sleeps([tm EXCEPT !.since = tm.t], tm.t)
             ELSE [tm EXCEPT !.pc = "initial", !.initial = TRUE]
    /\ UNCHANGED <<cipherVars, catalogVars, enumVars, streamVars, scheduleVars,
                   guideVars, rewriteVars, loopVars, fetchVars, bundleVars,
                   callsVars, proxyVars, loadsVars, playlistVars, regenVars>>

\* lines 479-482: the initial generation returned or raised an Exception
InitialGenerated(ok, lasted) ==
    /\ tm.pc = "initial"
    /\ tm' = timer_sleeps([tm EXCEPT !.exists = ok, !.failed = ~ok,
                                     !.since = tm.t + lasted],
                          tm.t + lasted)
    /\ UNCHANGED <<cipherVars, catalogVars, enumVars, streamVars, scheduleVars,
                   guideVars, rewriteVars, loopVars, fetchVars, bundleVars,
                   callsVars, proxyVars, loadsVars, playlistVars, regenVars>>

\* the sleep of line 487 is over: generate_guide is awaited
TimerWakes ==
    /\ tm.pc = "sleep"
    /\ tm.wake <= MaxHours
    /\ tm' = [tm EXCEPT !.pc = "generate", !.t = tm.wake, !.failed = FALSE,
                        !.runs = Append(tm.runs, tm.wake)]
    /\ UNCHANGED <<cipherVars, catalogVars, enumVars, streamVars, scheduleVars,
                   guideVars, rewriteVars, loopVars, fetchVars, bundleVars,
                   callsVars, proxyVars, loadsVars, playlistVars, regenVars>>

\* lines 488-494: the scheduled generation returned or raised an Exception,
\* and the loop goes on
ScheduledGenerated(ok, lasted) ==
    /\ tm.pc = "generate"
    /\ tm' = timer_sleeps([tm EXCEPT !.exists = tm.exists \/ ok, !.failed = ~ok],
                          tm.t + lasted)
    /\ UNCHANGED <<cipherVars, catalogVars, enumVars, streamVars, scheduleVars,
                   guideVars, rewriteVars, loopVars, fetchVars, bundleVars,
                   callsVars, proxyVars, loadsVars, playlistVars, regenVars>>

TimerNext ==
    \/ TimerStarts
    \/ \E ok \in BOOLEAN, lasted \in Durations : InitialGenerated(ok, lasted)
    \/ TimerWakes
    \/ \E ok \in BOOLEAN, lasted \in Durations : ScheduledGenerated(ok, lasted)




(***************************************************************************)
(* backend.py: selection changes and generate_guide calls that overlap.    *)
(* Every call awaits the upstream schedule; its answer ends the call.      *)
(***************************************************************************)
\* the selection changes and the calls in flight that are followed
MaxSaves == 2
MaxRegens == 3
\* the selections saved from the channels page
SavedIds == {{<<"1">>}, {<<"1">>, <<"9">>}, {<<>>}}
\* who calls generate_guide: the task of set_selected_channel_ids (line 129),
\* or ChannelState.save, refresh_all, auto_update_guide and /guide.xml
Callers == {"triggered", "other"}
\* the catalogs published while the selection is changed
RegenCatalogs == {Finalize(d) : d \in DictsOver({<<"1">>, <<"2">>}, {<<"X">>})}
NoRegens == [tasks |-> <<>>, saves |-> 0, raised |-> FALSE, ended |-> FALSE]
\* a call of generate_guide awaiting the schedule, with the selection file
\* as it was when the call was made
Regen(caller, file) == [caller |-> caller, file |-> file]
Without(tasks, i) == SubSeq(tasks, 1, i - 1) \o SubSeq(tasks, i + 1, Len(tasks))
\* the selection of the file the call was made with
selection_at_call(task, file, catalog) == get_selected_channel_ids(task.file, catalog)
\* the selection generate_guide works with: get_schedule (line 264) and
\* generate_guide (line 400) read the file after the schedule has arrived
selection_read(task, file, catalog) == get_selected_channel_ids(file, catalog)

\* set_selected_channel_ids, lines 114-131: the file is written, then the
\* task is created
SaveSelection(ids) ==
    /\ rg.saves < MaxSaves
    /\ Len(rg.tasks) < MaxRegens
    /\ channel_file' = File(cleaned(ids))
    /\ rg' = [rg EXCEPT !.saves = rg.saves + 1,
                        !.tasks = Append(rg.tasks,
                                         Regen("triggered", File(cleaned(ids))))]
    /\ UNCHANGED <<gs, guideVars, cipherVars, catalogVars, enumVars, streamVars,
                   rewriteVars, loopVars, fetchVars, bundleVars, callsVars,
                   proxyVars, timerVars, loadsVars, playlistVars>>

\* generate_guide is called by another caller
OtherRegeneration ==
    /\ Len(rg.tasks) < MaxRegens
    /\ rg' = [rg EXCEPT !.tasks = Append(rg.tasks, Regen("other", channel_file))]
    /\ UNCHANGED <<scheduleVars, guideVars, cipherVars, catalogVars, enumVars,
                   streamVars, rewriteVars, loopVars, fetchVars, bundleVars,
                   callsVars, proxyVars, timerVars, loadsVars, playlistVars>>

\* the end of a call of generate_guide: guide.xml is written unless an
\* exception was raised, lines 460-461
regeneration_ended(s, i, outcome) ==
    [s EXCEPT !.tasks = Without(s.tasks, i),
              !.ended = TRUE,
              !.raised = s.raised \/ (s.tasks[i].caller = "triggered" /\ ~outcome.ok)]
Regenerated(i, outcome) ==
    /\ guide_file' = FileAfter(outcome, guide_file)
    /\ rg' = regeneration_ended(rg, i, outcome)
\* lines 399-459 with the selection read
GuideOf(answer, selected) ==
    generate_guide(get_schedule(answer, channels, selected), channels, selected)

\* the schedule request of one of the calls returns or raises, and that
\* call of generate_guide runs to its end: lines 399-461
RegenerationEnds(i, answer) ==
    /\ i \in 1..Len(rg.tasks)
    /\ Regenerated(i, GuideOf(answer, selection_read(rg.tasks[i], channel_file, channels)))
    /\ UNCHANGED <<scheduleVars, guide_tasks, gg, cipherVars, catalogVars, enumVars,
                   streamVars, rewriteVars, loopVars, fetchVars, bundleVars,
                   callsVars, proxyVars, timerVars, loadsVars, playlistVars>>

RegenNext ==
    \/ \E ids \in SavedIds : SaveSelection(ids)
    \/ OtherRegeneration
    \/ \E i \in 1..MaxRegens, answer \in LoopAnswers : RegenerationEnds(i, answer)


(***************************************************************************)
(* step_daddy.py: runs of load_channels that overlap. Each caller awaits   *)
(* the listing page, then the schedule, and then publishes.                *)
(***************************************************************************)
\* the runs that publish which are followed
MaxLoads == 3
\* the callers of load_channels: the task update_channels (backend.py:217),
\* refresh_all (backend.py:500) and _startup (backend.py:62)
RunIds == {"update_channels", "refresh_all"}
LoadListings ==
    {Failure, Payload({Channel(<<"1">>, <<"X">>)}),
     Payload({Channel(<<"1">>, <<"X">>), Channel(<<"2">>, <<"X">>)})}
LoadSchedules == LoopSchedules
RunIdle == [pc |-> "idle", local |-> {}, listing |-> Failure]
NoLoads ==
    [runs |-> [r \in RunIds |-> RunIdle], published |-> <<>>, overlapped |-> FALSE]
\* a run that has published, with the answers it had got
LoadRecord(r, listing, schedule) == [run |-> r, listing |-> listing, schedule |-> schedule]
\* the dict of one run, as if it were one dict of the StepDaddy object
shared_dict(s, r) == UNION {s.runs[q].local : q \in RunIds}
\* line 79: `channels` is a dict of the call
local_dict(s, r) == s.runs[r].local

\* load_channels is called and awaits the listing page
LoadCalled(r) ==
    /\ ld.runs[r].pc = "idle"
    /\ Len(ld.published) < MaxLoads
    /\ ld' = [ld EXCEPT !.runs[r] = [RunIdle EXCEPT !.pc = "listing"],
                        !.overlapped = \E q \in RunIds : ld.runs[q].pc # "idle"]
    /\ UNCHANGED <<catalogVars, cipherVars, enumVars, streamVars, scheduleVars,
                   guideVars, rewriteVars, loopVars, fetchVars, bundleVars,
                   callsVars, proxyVars, timerVars, playlistVars, regenVars>>

\* lines 81-101: the listing request of a run returns or raises
LoadListingReturns(r, resp) ==
    /\ ld.runs[r].pc = "listing"
    /\ ld' = [ld EXCEPT !.runs[r] = [pc |-> "schedule",
                                     local |-> IF resp = Failure THEN {} ELSE resp.entries,
                                     listing |-> resp]]
    /\ UNCHANGED <<catalogVars, cipherVars, enumVars, streamVars, scheduleVars,
                   guideVars, rewriteVars, loopVars, fetchVars, bundleVars,
                   callsVars, proxyVars, timerVars, playlistVars, regenVars>>

\* lines 103-132: the schedule request of a run returns or raises; the run
\* publishes without awaiting again, unless an exception leaves it
LoadScheduleReturns(r, resp) ==
    /\ ld.runs[r].pc = "schedule"
    /\ channels' = Published(channels, local_dict(ld, r), resp)
    /\ ld' = [ld EXCEPT !.runs[r] = RunIdle,
                        !.published =
                            IF resp = Malformed THEN ld.published
                            ELSE Append(ld.published,
                                        LoadRecord(r, ld.runs[r].listing, resp))]
    /\ UNCHANGED <<lc_pc, lc_channels, lc_failed, before, seen, cipherVars, enumVars,
                   streamVars, scheduleVars, guideVars, rewriteVars, loopVars,
                   fetchVars, bundleVars, callsVars, proxyVars, timerVars,
                   playlistVars, regenVars>>

LoadsNext ==
    \/ \E r \in RunIds : LoadCalled(r)
    \/ \E r \in RunIds, resp \in LoadListings : LoadListingReturns(r, resp)
    \/ \E r \in RunIds, resp \in LoadSchedules : LoadScheduleReturns(r, resp)


(***************************************************************************)
(* backend.py and step_daddy.py: the /playlist.m3u8 route. The playlist is *)
(* the list of its entries: the name of the #EXTINF line and the id of the *)
(* stream URL that follows it.                                             *)
(***************************************************************************)
NoPlaylist == [served |-> FALSE, entries |-> <<>>]
\* backend.py:250: [ch for ch in step_daddy.channels if ch.id in selected]
selected_channels(catalog, selected) ==
    SelectSeq(catalog, LAMBDA ch : ch.id \in selected)
\* StepDaddy.playlist, lines 353-362: `for channel in channels or
\* self.channels`, and a list without elements is false
playlist(given, catalog) ==
    [i \in 1..Len(IF given = <<>> THEN catalog ELSE given) |->
        [name |-> (IF given = <<>> THEN catalog ELSE given)[i].name,
         id |-> (IF given = <<>> THEN catalog ELSE given)[i].id]]

\* the selection file is written by set_selected_channel_ids
PlaylistSelection(ids) ==
    /\ ~pl.served
    /\ channel_file' = File(cleaned(ids))
    /\ UNCHANGED <<gs, pl, guideVars, cipherVars, catalogVars, enumVars, streamVars,
                   rewriteVars, loopVars, fetchVars, bundleVars, callsVars,
                   proxyVars, timerVars, loadsVars, regenVars>>

\* GET /playlist.m3u8, backend.py:247-255
PlaylistRequest ==
    /\ pl' = [served |-> TRUE,
              entries |-> playlist(selected_channels(channels,
                                       get_selected_channel_ids(channel_file, channels)),
                                   channels)]
    /\ UNCHANGED <<scheduleVars, guideVars, cipherVars, catalogVars, enumVars,
                   streamVars, rewriteVars, loopVars, fetchVars, bundleVars,
                   callsVars, proxyVars, timerVars, loadsVars, regenVars>>

PlaylistRouteNext ==
    \/ \E ids \in SUBSET SelectableIds : PlaylistSelection(ids)
    \/ PlaylistRequest

(***************************************************************************)
(* The specifications, one per component.                                  *)
(***************************************************************************)
CipherInit ==
    /\ key_bytes \in {KeyOf(seed) : seed \in KeySeeds}
    /\ plain = NONE
    /\ token = <<>>
    /\ origin = "none"
    /\ result = NotRun
    /\ channels = <<>>
    /\ lc_pc = "idle"
    /\ lc_channels = {}
    /\ lc_failed = FALSE
    /\ before = <<>>
    /\ seen = NotRead
    /\ enum_in = <<>>
    /\ enum_out = NotCalled
    /\ st = StreamIdle
    /\ channel_file = NoFile
    /\ gs = NoCall
    /\ guide_file = NoGuide
    /\ guide_tasks = 0
    /\ gg = NoRun
    /\ rw = NotRewritten
    /\ uc = NotStarted
    /\ ag = NotStarted
    /\ sch = NoFetch
    /\ db = NoDecode
    /\ rs = NoCalls
    /\ px = NoProxy
    /\ tm = NoTimer
    /\ ld = NoLoads
    /\ pl = NoPlaylist
    /\ rg = NoRegens

CatalogInit ==
    /\ key_bytes = KeyOf(0)
    /\ plain = NONE
    /\ token = <<>>
    /\ origin = "none"
    /\ result = NotRun
    /\ channels = <<>>
    /\ lc_pc = "idle"
    /\ lc_channels = {}
    /\ lc_failed = FALSE
    /\ before = <<>>
    /\ seen = NotRead
    /\ enum_in = <<>>
    /\ enum_out = NotCalled
    /\ st = StreamIdle
    /\ channel_file = NoFile
    /\ gs = NoCall
    /\ guide_file = NoGuide
    /\ guide_tasks = 0
    /\ gg = NoRun
    /\ rw = NotRewritten
    /\ uc = NotStarted
    /\ ag = NotStarted
    /\ sch = NoFetch
    /\ db = NoDecode
    /\ rs = NoCalls
    /\ px = NoProxy
    /\ tm = NoTimer
    /\ ld = NoLoads
    /\ pl = NoPlaylist
    /\ rg = NoRegens

EnumInit ==
    /\ key_bytes = KeyOf(0)
    /\ plain = NONE
    /\ token = <<>>
    /\ origin = "none"
    /\ result = NotRun
    /\ channels = <<>>
    /\ lc_pc = "idle"
    /\ lc_channels = {}
    /\ lc_failed = FALSE
    /\ before = <<>>
    /\ seen = NotRead
    /\ enum_in \in EnumInputs
    /\ enum_out = NotCalled
    /\ st = StreamIdle
    /\ channel_file = NoFile
    /\ gs = NoCall
    /\ guide_file = NoGuide
    /\ guide_tasks = 0
    /\ gg = NoRun
    /\ rw = NotRewritten
    /\ uc = NotStarted
    /\ ag = NotStarted
    /\ sch = NoFetch
    /\ db = NoDecode
    /\ rs = NoCalls
    /\ px = NoProxy
    /\ tm = NoTimer
    /\ ld = NoLoads
    /\ pl = NoPlaylist
    /\ rg = NoRegens

SpecCipher == CipherInit /\ [][CipherNext]_vars

SpecCatalog == CatalogInit /\ [][CatalogNext]_vars

SpecEnum == EnumInit /\ [][EnumNext]_vars

StreamInit ==
    /\ key_bytes = KeyOf(0)
    /\ plain = NONE
    /\ token = <<>>
    /\ origin = "none"
    /\ result = NotRun
    /\ channels = <<>>
    /\ lc_pc = "idle"
    /\ lc_channels = {}
    /\ lc_failed = FALSE
    /\ before = <<>>
    /\ seen = NotRead
    /\ enum_in = <<>>
    /\ enum_out = NotCalled
    /\ st = StreamIdle
    /\ channel_file = NoFile
    /\ gs = NoCall
    /\ guide_file = NoGuide
    /\ guide_tasks = 0
    /\ gg = NoRun
    /\ rw = NotRewritten
    /\ uc = NotStarted
    /\ ag = NotStarted
    /\ sch = NoFetch
    /\ db = NoDecode
    /\ rs = NoCalls
    /\ px = NoProxy
    /\ tm = NoTimer
    /\ ld = NoLoads
    /\ pl = NoPlaylist
    /\ rg = NoRegens

SpecStream == StreamInit /\ [][StreamNext]_vars

\* every request of the session carries a timeout: a pending request is
\* answered or raises, so the call always takes its next step
SpecStreamFair == StreamInit /\ [][StreamNext]_vars /\ WF_vars(StreamNext)

ScheduleInit ==
    /\ key_bytes = KeyOf(0)
    /\ plain = NONE
    /\ token = <<>>
    /\ origin = "none"
    /\ result = NotRun
    /\ channels \in ScheduleCatalogs
    /\ lc_pc = "idle"
    /\ lc_channels = {}
    /\ lc_failed = FALSE
    /\ before = <<>>
    /\ seen = NotRead
    /\ enum_in = <<>>
    /\ enum_out = NotCalled
    /\ st = StreamIdle
    /\ channel_file = NoFile
    /\ gs = NoCall
    /\ guide_file = NoGuide
    /\ guide_tasks = 0
    /\ gg = NoRun
    /\ rw = NotRewritten
    /\ uc = NotStarted
    /\ ag = NotStarted
    /\ sch = NoFetch
    /\ db = NoDecode
    /\ rs = NoCalls
    /\ px = NoProxy
    /\ tm = NoTimer
    /\ ld = NoLoads
    /\ pl = NoPlaylist
    /\ rg = NoRegens

SpecSchedule == ScheduleInit /\ [][ScheduleNext]_vars

GuideInit ==
    /\ key_bytes = KeyOf(0)
    /\ plain = NONE
    /\ token = <<>>
    /\ origin = "none"
    /\ result = NotRun
    /\ channels \in ScheduleCatalogs
    /\ lc_pc = "idle"
    /\ lc_channels = {}
    /\ lc_failed = FALSE
    /\ before = <<>>
    /\ seen = NotRead
    /\ enum_in = <<>>
    /\ enum_out = NotCalled
    /\ st = StreamIdle
    /\ channel_file = NoFile
    /\ gs = NoCall
    /\ guide_file \in {NoGuide, Written(OldGuide)}
    /\ guide_tasks = 0
    /\ gg = NoRun
    /\ rw = NotRewritten
    /\ uc = NotStarted
    /\ ag = NotStarted
    /\ sch = NoFetch
    /\ db = NoDecode
    /\ rs = NoCalls
    /\ px = NoProxy
    /\ tm = NoTimer
    /\ ld = NoLoads
    /\ pl = NoPlaylist
    /\ rg = NoRegens

SpecGuide == GuideInit /\ [][GuideNext]_vars

RewriteInit ==
    /\ key_bytes \in {KeyOf(seed) : seed \in KeySeeds}
    /\ plain = NONE
    /\ token = <<>>
    /\ origin = "none"
    /\ result = NotRun
    /\ channels = <<>>
    /\ lc_pc = "idle"
    /\ lc_channels = {}
    /\ lc_failed = FALSE
    /\ before = <<>>
    /\ seen = NotRead
    /\ enum_in = <<>>
    /\ enum_out = NotCalled
    /\ st = StreamIdle
    /\ channel_file = NoFile
    /\ gs = NoCall
    /\ guide_file = NoGuide
    /\ guide_tasks = 0
    /\ gg = NoRun
    /\ rw = NotRewritten
    /\ uc = NotStarted
    /\ ag = NotStarted
    /\ sch = NoFetch
    /\ db = NoDecode
    /\ rs = NoCalls
    /\ px = NoProxy
    /\ tm = NoTimer
    /\ ld = NoLoads
    /\ pl = NoPlaylist
    /\ rg = NoRegens

SpecRewrite == RewriteInit /\ [][RewriteNext]_vars

LoopsInit ==
    /\ key_bytes = KeyOf(0)
    /\ plain = NONE
    /\ token = <<>>
    /\ origin = "none"
    /\ result = NotRun
    /\ channels = <<>>
    /\ lc_pc = "idle"
    /\ lc_channels = {}
    /\ lc_failed = FALSE
    /\ before = <<>>
    /\ seen = NotRead
    /\ enum_in = <<>>
    /\ enum_out = NotCalled
    /\ st = StreamIdle
    /\ channel_file = NoFile
    /\ gs = NoCall
    /\ guide_file \in {NoGuide, Written(OldGuide)}
    /\ guide_tasks = 0
    /\ gg = NoRun
    /\ rw = NotRewritten
    /\ uc = NotStarted
    /\ ag = NotStarted
    /\ sch = NoFetch
    /\ db = NoDecode
    /\ rs = NoCalls
    /\ px = NoProxy
    /\ tm = NoTimer
    /\ ld = NoLoads
    /\ pl = NoPlaylist
    /\ rg = NoRegens

SpecLoops == LoopsInit /\ [][LoopsNext]_vars

\* the event loop runs a task that is ready: a timer of asyncio.sleep
\* expires, a request of the session returns or raises within its timeout,
\* and a cancelled task is stepped with CancelledError
SpecLoopsFair ==
    /\ LoopsInit
    /\ [][LoopsNext]_vars
    /\ WF_vars(UpdateChannelsRun)
    /\ WF_vars(\E resp \in LoopListings : ListingReturns(resp))
    /\ WF_vars(\E resp \in LoopSchedules : ScheduleReturns(resp))
    /\ WF_vars(UpdateChannelsWakes)
    /\ WF_vars(UpdateChannelsCancelled)
    /\ WF_vars(AutoUpdateGuideRun)
    /\ WF_vars(\E answer \in LoopAnswers : GuideReturns(answer))
    /\ WF_vars(AutoUpdateGuideWakes)
    /\ WF_vars(AutoUpdateGuideCancelled)

FetchInit ==
    /\ key_bytes = KeyOf(0)
    /\ plain = NONE
    /\ token = <<>>
    /\ origin = "none"
    /\ result = NotRun
    /\ channels = <<>>
    /\ lc_pc = "idle"
    /\ lc_channels = {}
    /\ lc_failed = FALSE
    /\ before = <<>>
    /\ seen = NotRead
    /\ enum_in = <<>>
    /\ enum_out = NotCalled
    /\ st = StreamIdle
    /\ channel_file = NoFile
    /\ gs = NoCall
    /\ guide_file = NoGuide
    /\ guide_tasks = 0
    /\ gg = NoRun
    /\ rw = NotRewritten
    /\ uc = NotStarted
    /\ ag = NotStarted
    /\ sch = NoFetch
    /\ db = NoDecode
    /\ rs = NoCalls
    /\ px = NoProxy
    /\ tm = NoTimer
    /\ ld = NoLoads
    /\ pl = NoPlaylist
    /\ rg = NoRegens

SpecFetch == FetchInit /\ [][FetchNext]_vars

BundleInit ==
    /\ key_bytes = KeyOf(0)
    /\ plain = NONE
    /\ token = <<>>
    /\ origin = "none"
    /\ result = NotRun
    /\ channels = <<>>
    /\ lc_pc = "idle"
    /\ lc_channels = {}
    /\ lc_failed = FALSE
    /\ before = <<>>
    /\ seen = NotRead
    /\ enum_in = <<>>
    /\ enum_out = NotCalled
    /\ st = StreamIdle
    /\ channel_file = NoFile
    /\ gs = NoCall
    /\ guide_file = NoGuide
    /\ guide_tasks = 0
    /\ gg = NoRun
    /\ rw = NotRewritten
    /\ uc = NotStarted
    /\ ag = NotStarted
    /\ sch = NoFetch
    /\ db = NoDecode
    /\ rs = NoCalls
    /\ px = NoProxy
    /\ tm = NoTimer
    /\ ld = NoLoads
    /\ pl = NoPlaylist
    /\ rg = NoRegens

SpecBundle == BundleInit /\ [][BundleNext]_vars

CallsInit ==
    /\ key_bytes = KeyOf(0)
    /\ plain = NONE
    /\ token = <<>>
    /\ origin = "none"
    /\ result = NotRun
    /\ channels = <<>>
    /\ lc_pc = "idle"
    /\ lc_channels = {}
    /\ lc_failed = FALSE
    /\ before = <<>>
    /\ seen = NotRead
    /\ enum_in = <<>>
    /\ enum_out = NotCalled
    /\ st = StreamIdle
    /\ channel_file = NoFile
    /\ gs = NoCall
    /\ guide_file = NoGuide
    /\ guide_tasks = 0
    /\ gg = NoRun
    /\ rw = NotRewritten
    /\ uc = NotStarted
    /\ ag = NotStarted
    /\ sch = NoFetch
    /\ db = NoDecode
    /\ rs = NoCalls
    /\ px = NoProxy
    /\ tm = NoTimer
    /\ ld = NoLoads
    /\ pl = NoPlaylist
    /\ rg = NoRegens

SpecCalls == CallsInit /\ [][CallsNext]_vars

ProxyInit ==
    /\ key_bytes \in {KeyOf(seed) : seed \in KeySeeds}
    /\ plain = NONE
    /\ token = <<>>
    /\ origin = "none"
    /\ result = NotRun
    /\ channels = <<>>
    /\ lc_pc = "idle"
    /\ lc_channels = {}
    /\ lc_failed = FALSE
    /\ before = <<>>
    /\ seen = NotRead
    /\ enum_in = <<>>
    /\ enum_out = NotCalled
    /\ st = StreamIdle
    /\ channel_file = NoFile
    /\ gs = NoCall
    /\ guide_file = NoGuide
    /\ guide_tasks = 0
    /\ gg = NoRun
    /\ rw = NotRewritten
    /\ uc = NotStarted
    /\ ag = NotStarted
    /\ sch = NoFetch
    /\ db = NoDecode
    /\ rs = NoCalls
    /\ px = NoProxy
    /\ tm = NoTimer
    /\ ld = NoLoads
    /\ pl = NoPlaylist
    /\ rg = NoRegens

SpecProxy == ProxyInit /\ [][ProxyNext]_vars

TimerInit ==
    /\ key_bytes = KeyOf(0)
    /\ plain = NONE
    /\ token = <<>>
    /\ origin = "none"
    /\ result = NotRun
    /\ channels = <<>>
    /\ lc_pc = "idle"
    /\ lc_channels = {}
    /\ lc_failed = FALSE
    /\ before = <<>>
    /\ seen = NotRead
    /\ enum_in = <<>>
    /\ enum_out = NotCalled
    /\ st = StreamIdle
    /\ channel_file = NoFile
    /\ gs = NoCall
    /\ guide_file = NoGuide
    /\ guide_tasks = 0
    /\ gg = NoRun
    /\ rw = NotRewritten
    /\ uc = NotStarted
    /\ ag = NotStarted
    /\ sch = NoFetch
    /\ db = NoDecode
    /\ rs = NoCalls
    /\ px = NoProxy
    /\ tm \in {[NoTimer EXCEPT !.zone = zone, !.hour = hour, !.t = t,
                                   !.exists = exists, !.existed = exists] :
                 zone \in Zones, hour \in GuideHours, t \in StartHours,
                 exists \in BOOLEAN}
    /\ ld = NoLoads
    /\ pl = NoPlaylist
    /\ rg = NoRegens

SpecTimer == TimerInit /\ [][TimerNext]_vars

RegenInit ==
    /\ key_bytes = KeyOf(0)
    /\ plain = NONE
    /\ token = <<>>
    /\ origin = "none"
    /\ result = NotRun
    /\ channels \in RegenCatalogs
    /\ lc_pc = "idle"
    /\ lc_channels = {}
    /\ lc_failed = FALSE
    /\ before = <<>>
    /\ seen = NotRead
    /\ enum_in = <<>>
    /\ enum_out = NotCalled
    /\ st = StreamIdle
    /\ channel_file \in {NoFile, File({<<"2">>})}
    /\ gs = NoCall
    /\ guide_file \in {NoGuide, Written(OldGuide)}
    /\ guide_tasks = 0
    /\ gg = NoRun
    /\ rw = NotRewritten
    /\ uc = NotStarted
    /\ ag = NotStarted
    /\ sch = NoFetch
    /\ db = NoDecode
    /\ rs = NoCalls
    /\ px = NoProxy
    /\ tm = NoTimer
    /\ ld = NoLoads
    /\ pl = NoPlaylist
    /\ rg = NoRegens

SpecRegen == RegenInit /\ [][RegenNext]_vars

LoadsInit ==
    /\ key_bytes = KeyOf(0)
    /\ plain = NONE
    /\ token = <<>>
    /\ origin = "none"
    /\ result = NotRun
    /\ channels = <<>>
    /\ lc_pc = "idle"
    /\ lc_channels = {}
    /\ lc_failed = FALSE
    /\ before = <<>>
    /\ seen = NotRead
    /\ enum_in = <<>>
    /\ enum_out = NotCalled
    /\ st = StreamIdle
    /\ channel_file = NoFile
    /\ gs = NoCall
    /\ guide_file = NoGuide
    /\ guide_tasks = 0
    /\ gg = NoRun
    /\ rw = NotRewritten
    /\ uc = NotStarted
    /\ ag = NotStarted
    /\ sch = NoFetch
    /\ db = NoDecode
    /\ rs = NoCalls
    /\ px = NoProxy
    /\ tm = NoTimer
    /\ ld = NoLoads
    /\ pl = NoPlaylist
    /\ rg = NoRegens

SpecLoads == LoadsInit /\ [][LoadsNext]_vars

PlaylistInit ==
    /\ key_bytes = KeyOf(0)
    /\ plain = NONE
    /\ token = <<>>
    /\ origin = "none"
    /\ result = NotRun
    /\ channels \in ScheduleCatalogs
    /\ lc_pc = "idle"
    /\ lc_channels = {}
    /\ lc_failed = FALSE
    /\ before = <<>>
    /\ seen = NotRead
    /\ enum_in = <<>>
    /\ enum_out = NotCalled
    /\ st = StreamIdle
    /\ channel_file = NoFile
    /\ gs = NoCall
    /\ guide_file = NoGuide
    /\ guide_tasks = 0
    /\ gg = NoRun
    /\ rw = NotRewritten
    /\ uc = NotStarted
    /\ ag = NotStarted
    /\ sch = NoFetch
    /\ db = NoDecode
    /\ rs = NoCalls
    /\ px = NoProxy
    /\ tm = NoTimer
    /\ ld = NoLoads
    /\ pl = NoPlaylist
    /\ rg = NoRegens

SpecPlaylist == PlaylistInit /\ [][PlaylistRouteNext]_vars

(***************************************************************************)
(* Claims about the cipher (checked under SpecCipher).                     *)
(***************************************************************************)
\* A token has the form of URL-safe base64: n >= 1 alphabet characters, n not
\* one more than a multiple of 4, followed by no more "=" than pad n to a
\* multiple of 4.
HasBase64Form(t) ==
    \E n \in 1..Len(t) :
        /\ \A i \in 1..n : t[i] \in UrlChars
        /\ n % 4 # 1
        /\ \A i \in (n + 1)..Len(t) : t[i] = "="
        /\ Len(t) - n <= (4 - (n % 4)) % 4

\* C1 (as claimed): decrypting a token issued by encrypt for any string s,
\* after whatever ran in between, returns s.
C1_RoundTrip ==
    (origin = "issued" /\ result # NotRun) => result = Ok(plain)

\* C2 (as claimed): decrypt fails with InvalidToken on every token that is not
\* URL-safe base64 and on every token obtained by altering a character of an
\* issued token.
C2_CorruptedAlwaysFails ==
    (result # NotRun /\ (origin = "corrupted" \/ (token # <<>> /\ ~HasBase64Form(token))))
        => result = InvalidToken

\* C2 (amended): decrypt fails with InvalidToken on every non-empty token that
\* has not the form of URL-safe base64; a token of that form (an altered one
\* included) fails exactly when its bytes, XORed with the key, are not valid
\* UTF-8, and otherwise decrypt returns the string those bytes encode.
C2_MalformedFails ==
    result # NotRun =>
        /\ (token # <<>> /\ ~HasBase64Form(token)) => result = InvalidToken
        /\ HasBase64Form(token) =>
              LET text == Utf8Decode(xor(key_bytes, urlsafe_b64decode(Padded(token))))
              IN  result = (IF text = NONE THEN InvalidToken ELSE Ok(text))

\* C2 witness: an issued token was altered into one that is no longer base64
\* and decrypt rejected it.
C2_Witness ==
    /\ origin = "corrupted"
    /\ ~HasBase64Form(token)
    /\ result = InvalidToken

(***************************************************************************)
(* Claims about the catalog (checked under SpecCatalog).                   *)
(***************************************************************************)
\* C3 (as claimed): when a load_channels run whose listing request failed has
\* finished, the catalog is the one that was current before the run.
C3_FailedRefreshKeepsCatalog ==
    (lc_pc = "idle" /\ lc_failed) => channels = before

\* C4: while a run is under way the catalog is still the previous snapshot,
\* and whatever a reader got at any point of the run is either the snapshot
\* from before the run or the one the run published at its end.
C4_ReaderSeesWholeSnapshot ==
    /\ lc_pc # "idle" => channels = before
    /\ seen # NotRead => (seen.list = before \/ seen.list = channels)

\* C4 witness: a reader took the (non-empty) previous snapshot while the run
\* held a partly built dict, and the run then published a different one.
C4_Witness ==
    /\ lc_pc = "idle"
    /\ seen # NotRead
    /\ seen.list = before
    /\ before # <<>>
    /\ channels # before

\* C5 (as claimed): the names of the published catalog are pairwise distinct.
C5_UniqueNames ==
    \A i, j \in 1..Len(channels) :
        i # j => channels[i].name # channels[j].name

(***************************************************************************)
(* Claims about _enumerate_duplicate_names (checked under SpecEnum).       *)
(***************************************************************************)
\* C6: the list keeps its length, order and ids; a channel whose name occurs
\* more than once gets " (n)", n its 1-based rank among the channels of that
\* name; a channel whose name occurs once keeps its name.
C6_Enumerated ==
    enum_out # NotCalled =>
        LET out == enum_out.list
            Same(i) == {j \in 1..Len(enum_in) : enum_in[j].name = enum_in[i].name}
        IN  /\ Len(out) = Len(enum_in)
            /\ \A i \in 1..Len(enum_in) :
                /\ out[i].id = enum_in[i].id
                /\ out[i].name =
                      IF Cardinality(Same(i)) > 1
                      THEN enum_in[i].name \o <<" ", "(">>
                           \o Decimal(Cardinality({j \in Same(i) : j <= i})) \o <<")">>
                      ELSE enum_in[i].name

\* C6 witness: [X, X, Y, X] became [X (1), X (2), Y, X (3)].
C6_Witness ==
    /\ enum_out # NotCalled
    /\ [i \in 1..Len(enum_in) |-> enum_in[i].name] = <<<<"X">>, <<"X">>, <<"Y">>, <<"X">>>>
    /\ [i \in 1..Len(enum_out.list) |-> enum_out.list[i].name] =
          << <<"X", " ", "(", "1", ")">>, <<"X", " ", "(", "2", ")">>, <<"Y">>,
             <<"X", " ", "(", "3", ")">> >>

\* the call of stream() has ended, by a return or by raising
StreamEnded == st.pc \in {"returned", "raised"}

\* C7: when no stream-page template yields an iframe, the call ends by
\* raising the "Failed to find source URL" error (ChannelNotResolvable), and
\* at no point of such a run has an iframe POST, a bundle decode, an auth
\* request, a server lookup or a playlist fetch been made.
C7_NoIframeNotResolvable ==
    (st.pc # "idle" /\ st.prefix >= 1 /\ st.iframes = 0) =>
        /\ st.sent.iframe = 0 /\ st.sent.decode = 0 /\ st.sent.auth = 0
        /\ st.sent.lookup = 0 /\ st.sent.m3u8 = 0
        /\ StreamEnded => (st.pc = "raised" /\ st.error = NoSourceError)

C7_Witness ==
    /\ st.pc = "raised" /\ st.error = NoSourceError
    /\ st.iframes = 0 /\ st.sent.page = Len(prefixes)

\* the ids of the catalog
CatalogIds == {channels[i].id : i \in 1..Len(channels)}

\* the references of a "channels" value, of a schedule's events, of a schedule
RefsIn(ch) == {ch.items[i] : i \in 1..Len(ch.items)}
AllRefsOf(event) == RefsIn(event.channels) \cup RefsIn(event.channels2)
EventsOf(schedule) ==
    UNION {UNION {{schedule[d][c][i] : i \in 1..Len(schedule[d][c])} :
                    c \in DOMAIN schedule[d]} : d \in DOMAIN schedule}
RefsOf(schedule) == UNION {AllRefsOf(e) : e \in EventsOf(schedule)}

\* what resolve makes of a reference under the catalog and the selection of
\* the call on record
Resolved(ref) ==
    resolve(ref, id_to_name_of(channels, 1, EmptyDict),
            name_to_id_of(channels, 1, gs.selected, EmptyDict), gs.selected)

\* the catalog's name for rawId equals rawName exactly
HasExactName(ref) ==
    \E i \in 1..Len(channels) :
        channels[i].id = ref.channel_id /\ channels[i].name = ref.channel_name

\* the channels whose normalized name, full or without its " (n)" suffix,
\* equals the normalized rawName
NameMatchIds(ref) ==
    {channels[i].id : i \in {j \in 1..Len(channels) :
        \/ norm(channels[j].name) = norm(ref.channel_name)
        \/ norm(strip_suffix(channels[j].name)) = norm(ref.channel_name)}}

\* the ids the resolution rule allows for a reference; none: it is dropped
RuleIds(ref) == IF HasExactName(ref) THEN {ref.channel_id} ELSE NameMatchIds(ref)

\* the events of a list whose only reference is dropped
OnlyRefDropped(events) ==
    {i \in 1..Len(events) :
        /\ Cardinality(AllRefsOf(events[i])) = 1
        /\ Len(events[i].channels.items) + Len(events[i].channels2.items) = 1
        /\ \A ref \in AllRefsOf(events[i]) : Resolved(ref) = <<>>}

\* the events get_schedule returned for a category of a day
Returned(d, c) ==
    IF d \in DOMAIN gs.result /\ c \in DOMAIN gs.result[d] THEN gs.result[d][c] ELSE <<>>

\* C8: a reference whose rawName is the catalog's name for its rawId resolves
\* to rawId; otherwise, if catalog channels match its normalized name, to the
\* id of one of them; otherwise it is dropped. It is kept only with its
\* resolved id in the selection, and an event whose only reference is
\* dropped is not returned.
C8_ResolutionRule ==
    (gs.called /\ gs.schedule.ok) =>
        /\ \A ref \in RefsOf(gs.schedule.entries) :
              /\ Resolved(ref) # <<>> =>
                    Resolved(ref)[1].channel_id \in RuleIds(ref) \cap gs.selected
              /\ Resolved(ref) = <<>> =>
                    ~(RuleIds(ref) # {} /\ RuleIds(ref) \subseteq gs.selected)
        /\ \A d \in DOMAIN gs.schedule.entries :
              \A c \in DOMAIN gs.schedule.entries[d] :
                 Len(Returned(d, c)) + Cardinality(OnlyRefDropped(gs.schedule.entries[d][c]))
                    <= Len(gs.schedule.entries[d][c])

\* C9: every reference of a returned schedule carries the id of a catalog
\* channel that is in the selection.
C9_RefsInCatalogAndSelection ==
    gs.called =>
        \A ref \in RefsOf(gs.result) :
            ref.channel_id \in CatalogIds /\ ref.channel_id \in gs.selected

\* the events of a list of which a reference resolves
Surviving(events) ==
    {i \in 1..Len(events) : \E ref \in AllRefsOf(events[i]) : Resolved(ref) # <<>>}

\* C10: a returned event has a reference in its primary or alternate list,
\* a returned category has an event and a returned day has a category; and
\* exactly the events with a surviving reference are returned, so that a
\* category or a day without one is absent.
C10_NothingEmptyReturned ==
    gs.called =>
        /\ \A d \in DOMAIN gs.result :
              /\ DOMAIN gs.result[d] # {}
              /\ \A c \in DOMAIN gs.result[d] :
                    /\ gs.result[d][c] # <<>>
                    /\ \A i \in 1..Len(gs.result[d][c]) :
                          AllRefsOf(gs.result[d][c][i]) # {}
        /\ gs.schedule.ok =>
              \A d \in DOMAIN gs.schedule.entries :
                 /\ \A c \in DOMAIN gs.schedule.entries[d] :
                       /\ Len(Returned(d, c)) =
                             Cardinality(Surviving(gs.schedule.entries[d][c]))
                       /\ Surviving(gs.schedule.entries[d][c]) = {} =>
                             (d \notin DOMAIN gs.result \/ c \notin DOMAIN gs.result[d])
                 /\ (\A c \in DOMAIN gs.schedule.entries[d] :
                        Surviving(gs.schedule.entries[d][c]) = {}) =>
                       d \notin DOMAIN gs.result

\* a schedule of two days was filtered: one day is returned, with its event,
\* the other is not
C10_Witness ==
    /\ gs.called /\ gs.schedule.ok
    /\ DOMAIN gs.schedule.entries = Days
    /\ DOMAIN gs.result = {"day1"}
    /\ Len(Returned("day1", "Soccer")) = 1


\* C14: the iframe URL of a template is POSTed at most max_retries times;
\* a call makes at most one stream-page POST per template and at most
\* max_retries iframe POSTs per template that yielded an iframe, and it
\* ends, by a return or by raising, whatever the upstream answers.
C14_BoundedPosts ==
    /\ [](/\ st.attempt <= max_retries
          /\ st.sent.page <= Len(prefixes)
          /\ st.iframes <= st.sent.page
          /\ st.sent.iframe <= max_retries * st.iframes
          /\ st.sent.iframe <= 9)
    /\ (st.pc # "idle") ~> StreamEnded

\* a call that made every POST the bound allows
C14_Witness ==
    /\ StreamEnded
    /\ st.sent.page = Len(prefixes)
    /\ st.sent.iframe = max_retries * Len(prefixes)
    /\ st.attempt = max_retries


\* C15: a non-transient HTTP error response to the iframe POST is not
\* retried: no POST to an iframe URL is pending while the response last
\* received from that URL is one the status check rejected.
C15_HttpErrorNotRetried ==
    ~(/\ st.pc = "iframe"
      /\ st.source_response.status = "http_error"
      /\ st.source_response.url = st.source_url)

\* the position of a stage in the order of the handshake
StageIndex(stage) == CHOOSE i \in 1..Len(Stages) : Stages[i] = stage
Reached(stage) == \E i \in 1..Len(st.stages) : st.stages[i] = stage

\* C16: the stages are reached in the order of the handshake, none skipped
\* (a later template starts again at PageFound); the auth GET is issued only
\* after a bundle was decoded, the server lookup only after the auth GET was
\* accepted, the playlist GET only after a server key was obtained, and a
\* playlist is returned only after the playlist GET succeeded.
C16_StagesInOrder ==
    /\ st.stages # <<>> => st.stages[1] = "PageFound"
    /\ \A i \in 2..Len(st.stages) :
          \/ StageIndex(st.stages[i]) = StageIndex(st.stages[i - 1]) + 1
          \/ st.stages[i] = "PageFound" /\ st.stages[i - 1] = "PageFound"
    /\ st.sent.auth > 0 => (Reached("BundleDecoded") /\ st.sent.decode > 0)
    /\ st.sent.lookup > 0 => Reached("AuthAccepted")
    /\ st.sent.m3u8 > 0 => Reached("ServerKeyResolved")
    /\ st.pc = "returned" => (Reached("PlaylistFetched") /\ st.stages[Len(st.stages)] = "Rewritten")

\* a playlist was returned by a call that needed its third template
C16_Witness ==
    /\ st.pc = "returned"
    /\ st.prefix = Len(prefixes)
    /\ Len(st.stages) > Len(Stages)


(***************************************************************************)
(* Claims about guide generation (checked under SpecGuide).                *)
(***************************************************************************)
\* the events that generate_guide was given under a day and a category, and
\* the channel references of an event
GuideEvents(day, category) == gg.filtered[day][category]
Sources(event) == event.channels.items \o event.channels2.items

\* a time "HH:MM" with HH in 00..23 and MM in 00..59
WellFormedTime(time) ==
    /\ time # JsonNull
    /\ Len(time) = 5
    /\ time[3] = ":"
    /\ \A i \in {1, 2, 4, 5} : time[i] \in DigitChars
    /\ (10 * DigitValue(time[1])) + DigitValue(time[2]) <= 23
    /\ DigitValue(time[4]) <= 5

\* the numbers of a label "DD-MM-YYYY - Weekday"
LabelDay(label) == (10 * DigitValue(label[1])) + DigitValue(label[2])
LabelMonth(label) == (10 * DigitValue(label[4])) + DigitValue(label[5])
LabelYear(label) ==
    (1000 * DigitValue(label[7])) + (100 * DigitValue(label[8]))
    + (10 * DigitValue(label[9])) + DigitValue(label[10])
\* a label "DD-MM-YYYY - Weekday" whose day DD exists in month MM of YYYY
WellFormedLabel(label) ==
    /\ Len(label) > 13
    /\ \A i \in {1, 2, 4, 5, 7, 8, 9, 10} : label[i] \in DigitChars
    /\ label[3] = "-" /\ label[6] = "-"
    /\ SubSeq(label, 11, 13) = <<" ", "-", " ">>
    /\ LabelMonth(label) \in 1..12
    /\ LabelYear(label) >= 1
    /\ LabelDay(label) \in 1..DaysInMonth(LabelYear(label), LabelMonth(label))

Seconds == <<"0", "0", " ", "+", "0", "0", "0", "0">>
\* YYYYMMDDHHMM00 +0000 of the label's date at the event's time
ExpectedStart(label, time) ==
    SubSeq(label, 7, 10) \o SubSeq(label, 4, 5) \o SubSeq(label, 1, 2)
    \o SubSeq(time, 1, 2) \o SubSeq(time, 4, 5) \o Seconds
\* the day after: the next day of the month, else the first of the next
\* month, else the first of January of the next year
NextDayStamp(year, month, day) ==
    IF day < DaysInMonth(year, month)
    THEN Decimal(year) \o TwoDigits(month) \o TwoDigits(day + 1)
    ELSE IF month < 12 THEN Decimal(year) \o TwoDigits(month + 1) \o <<"0", "1">>
    ELSE Decimal(year + 1) \o <<"0", "1", "0", "1">>
\* one hour later: the next hour of the day, else hour 00 of the day after
ExpectedStop(label, time) ==
    IF SubSeq(time, 1, 2) # <<"2", "3">>
    THEN SubSeq(label, 7, 10) \o SubSeq(label, 4, 5) \o SubSeq(label, 1, 2)
         \o TwoDigits((10 * DigitValue(time[1])) + DigitValue(time[2]) + 1)
         \o SubSeq(time, 4, 5) \o Seconds
    ELSE NextDayStamp(LabelYear(label), LabelMonth(label), LabelDay(label))
         \o <<"0", "0">> \o SubSeq(time, 4, 5) \o Seconds

\* p is the programme of the channel ref of an event of the day and category
ProgrammeOf(p, day, category, event, ref) ==
    /\ p.channel = ref.channel_id
    /\ p.category = category
    /\ p.start = ExpectedStart(day, event.time)
    /\ p.stop = ExpectedStop(day, event.time)

\* every event handed to the generation is well formed
AllWellFormed ==
    \A day \in DOMAIN gg.filtered :
        /\ WellFormedLabel(day)
        /\ \A category \in DOMAIN gg.filtered[day] :
              \A i \in 1..Len(GuideEvents(day, category)) :
                  WellFormedTime(GuideEvents(day, category)[i].time)

\* C11: when a guide is written, every event with a well-formed time HH:MM
\* on a day "DD-MM-YYYY - Weekday" has, for each of its channels, a programme
\* record with start = that date at HH:MM and stop = one hour later, into the
\* next day, month or year when the hour passes midnight; and when all
\* events are well formed the guide has no other programme records.
C11_StartAndStop ==
    gg.written =>
        /\ \A day \in DOMAIN gg.filtered :
              \A category \in DOMAIN gg.filtered[day] :
                  \A i \in 1..Len(GuideEvents(day, category)) :
                      (WellFormedLabel(day)
                       /\ WellFormedTime(GuideEvents(day, category)[i].time)) =>
                          \A j \in 1..Len(Sources(GuideEvents(day, category)[i])) :
                              \E k \in 1..Len(guide_file.programmes) :
                                  ProgrammeOf(guide_file.programmes[k], day, category,
                                              GuideEvents(day, category)[i],
                                              Sources(GuideEvents(day, category)[i])[j])
        /\ AllWellFormed =>
              \A k \in 1..Len(guide_file.programmes) :
                  \E day \in DOMAIN gg.filtered :
                      \E category \in DOMAIN gg.filtered[day] :
                          \E i \in 1..Len(GuideEvents(day, category)) :
                              \E j \in 1..Len(Sources(GuideEvents(day, category)[i])) :
                                  ProgrammeOf(guide_file.programmes[k], day, category,
                                              GuideEvents(day, category)[i],
                                              Sources(GuideEvents(day, category)[i])[j])

\* C11 witness: a guide was written with a programme that starts at 23:30
\* on 31-12-2024 and stops in 2025.
C11_Witness ==
    /\ gg.written
    /\ \E k \in 1..Len(guide_file.programmes) :
          /\ guide_file.programmes[k].start
                = <<"2", "0", "2", "4", "1", "2", "3", "1", "2", "3", "3", "0">> \o Seconds
          /\ guide_file.programmes[k].stop
                = <<"2", "0", "2", "5", "0", "1", "0", "1", "0", "0", "3", "0">> \o Seconds


\* every day handed to the generation has a well-formed label, of a year
\* before the last one of the calendar
LabelsFine ==
    \A day \in DOMAIN gg.filtered : WellFormedLabel(day) /\ LabelYear(day) < MAXYEAR

\* C12 (as claimed): a generation whose events have missing or malformed
\* times (absent, empty, not HH:MM, not numeric, hour or minute out of
\* range) on well-formed days is not aborted: the guide is written, with the
\* programme records of every event whose time is well formed.
C12_MalformedSkipped ==
    (gg.ran /\ LabelsFine) =>
        /\ gg.written
        /\ \A day \in DOMAIN gg.filtered :
              \A category \in DOMAIN gg.filtered[day] :
                  \A i \in 1..Len(GuideEvents(day, category)) :
                      WellFormedTime(GuideEvents(day, category)[i].time) =>
                          \A j \in 1..Len(Sources(GuideEvents(day, category)[i])) :
                              \E k \in 1..Len(guide_file.programmes) :
                                  ProgrammeOf(guide_file.programmes[k], day, category,
                                              GuideEvents(day, category)[i],
                                              Sources(GuideEvents(day, category)[i])[j])


\* the positions of the channel records of the guide with a given id
RecordsOf(id) == {k \in 1..Len(guide_file.channels) : guide_file.channels[k].id = id}

\* C13: a written guide has exactly one channel record for each catalog
\* channel whose id is in the selection, named as the catalog names it,
\* these records are in catalog order, and a catalog channel that is not in
\* the selection has none.
C13_SelectedCatalogChannels ==
    gg.written =>
        /\ \A i \in 1..Len(channels) :
              IF channels[i].id \in gg.selected
              THEN /\ Cardinality(RecordsOf(channels[i].id)) = 1
                   /\ \A k \in RecordsOf(channels[i].id) :
                         guide_file.channels[k].name = channels[i].name
              ELSE RecordsOf(channels[i].id) = {}
        /\ \A i \in 1..Len(channels) : \A j \in 1..Len(channels) :
              (i < j /\ channels[i].id \in gg.selected /\ channels[j].id \in gg.selected) =>
                  \A k \in RecordsOf(channels[i].id) : \A l \in RecordsOf(channels[j].id) :
                      k < l

\* C13 witness: a guide was written with the records of two selected catalog
\* channels of the same name, and a programme on the one that the catalog
\* names "X (1)" and the schedule names otherwise.
C13_Witness ==
    /\ gg.written
    /\ Len(channels) = 2
    /\ \A i \in 1..Len(channels) : channels[i].id \in gg.selected
    /\ \E i \in 1..Len(channels) :
          /\ channels[i].name = <<"X", " ", "(", "1", ")">>
          /\ \E day \in DOMAIN gg.filtered :
              \E category \in DOMAIN gg.filtered[day] :
                  \E e \in 1..Len(GuideEvents(day, category)) :
                      \E j \in 1..Len(Sources(GuideEvents(day, category)[e])) :
                          /\ Sources(GuideEvents(day, category)[e])[j].channel_id
                                = channels[i].id
                          /\ Sources(GuideEvents(day, category)[e])[j].channel_name
                                # channels[i].name
                          /\ \E k \in 1..Len(guide_file.programmes) :
                                guide_file.programmes[k].channel = channels[i].id


\* C20 (as claimed): a regeneration during which an error occurs, the failure
\* to fetch the upstream schedule included, leaves the guide that was there
\* before, with its programme records, as it was.
C20_LastGoodKept ==
    (gg.ran /\ gg.previous.written /\ (~gg.schedule.ok \/ ~gg.written)) =>
        guide_file = gg.previous


(***************************************************************************)
(* Claims about the playlist rewrite (checked under SpecRewrite).          *)
(***************************************************************************)
\* C17: the returned playlist has a line for each line of the upstream one.
\* With content-proxying enabled, the line of every upstream line that
\* starts with http:// or https:// is <api_url>/content/<token>, the token
\* made of characters of the URL-safe alphabet, and the /content route
\* resolves the token to exactly the upstream line; with content-proxying
\* disabled the line is the upstream line.
C17_SegmentLines ==
    rw.done =>
        /\ Len(rw.lines) = Len(LinesOf(rw.playlist))
        /\ \A i \in 1..Len(rw.lines) :
              (StartsWith(rw.lines[i], HttpScheme) \/ StartsWith(rw.lines[i], HttpsScheme)) =>
                  IF rw.proxy_content
                  THEN /\ StartsWith(LinesOf(rw.playlist)[i], api_url \o SlashContent)
                       /\ Len(LinesOf(rw.playlist)[i]) > Len(api_url \o SlashContent)
                       /\ \A j \in (Len(api_url \o SlashContent) + 1)..Len(LinesOf(rw.playlist)[i]) :
                             TokenChar(LinesOf(rw.playlist)[i][j]) \in UrlChars
                       /\ rw.asked = i => rw.url = Ok(rw.lines[i])
                  ELSE LinesOf(rw.playlist)[i] = rw.lines[i]

\* C17 witness: with content-proxying enabled, the route has resolved the
\* token of the second line of a playlist, an https URL with a character of
\* three bytes, to that line.
C17_Witness ==
    /\ rw.done
    /\ rw.proxy_content
    /\ rw.asked = 2
    /\ rw.lines[2] = HttpsScheme \o <<8364>>
    /\ rw.url = Ok(rw.lines[2])


\* the position of the first character of the URI value of a key line
UriStart(line) == FirstOf(Occurrences(line, UriEquals)) + Len(UriEquals)
\* a key line with the reference to the /key route in place of its URI
\* value, and nothing else changed
WithKeyUri(line, uri) ==
    SubSeq(line, 1, UriStart(line) - 1)
    \o api_url \o SlashKey \o TokenText(encrypt(key_bytes, uri))
    \o Slash \o TokenText(encrypt(key_bytes, Netloc))
    \o SubSeq(line, UriStart(line) + Len(uri), Len(line))

\* C32: the returned playlist ends with a newline and has the lines of the
\* upstream one, in their order; a #EXT-X-KEY line with a URI value has
\* that value, and nothing else, replaced by <api_url>/key/<a>/<b>, a
\* segment line may be replaced when content-proxying is enabled, and
\* every other line is the upstream line
C32_OnlyUriChanged ==
    rw.done =>
        /\ Len(LinesOf(rw.playlist)) = Len(rw.lines)
        /\ rw.playlist[Len(rw.playlist)] = 10
        /\ \A i \in 1..Len(rw.lines) :
              IF StartsWith(rw.lines[i], ExtXKey) /\ UriMatch(rw.lines[i]) # <<>>
              THEN LinesOf(rw.playlist)[i] = WithKeyUri(rw.lines[i], UriMatch(rw.lines[i])[1])
              ELSE IF StartsWith(rw.lines[i], Http) /\ rw.proxy_content THEN TRUE
              ELSE LinesOf(rw.playlist)[i] = rw.lines[i]


(***************************************************************************)
(* Claims about the lifespan tasks (checked under SpecLoops and            *)
(* SpecLoopsFair).                                                         *)
(***************************************************************************)
\* C18: after a refresh attempt that failed (the listing request failed, or
\* load_channels raised), update_channels waits the retry delay of 60
\* seconds before the next attempt.
C18_FailedRefreshBacksOff ==
    (uc.pc = "sleep" /\ (uc.failed \/ uc.raised)) => uc.delay = retry_delay

\* a refresh attempt that failed and was followed by the normal interval
FailedRefreshWaitsInterval ==
    uc.pc = "sleep" /\ uc.failed /\ uc.delay = refresh_interval

\* update_channels, unless cancelled, goes from every refresh to a sleep and
\* from every sleep to the next refresh
UpdateChannelsReschedules ==
    /\ (uc.pc \in {"listing", "schedule"}) ~> (uc.pc \in {"sleep", "ended"})
    /\ (uc.pc = "sleep") ~> (uc.pc \in {"listing", "ended"})

\* C19: once cancel() is called on update_channels or auto_update_guide, in
\* its sleep or inside load_channels or generate_guide, the task takes no
\* step but the one that ends it, it does end, and an ended task stays
\* ended: it changes neither the catalog nor guide.xml.
C19_CancelledLoopsEnd ==
    /\ [](uc.at # "none" => uc.pc = "ended")
    /\ [](ag.at # "none" => ag.pc = "ended")
    /\ [][uc.cancel => uc'.pc \in {uc.pc, "ended"}]_vars
    /\ [][ag.cancel => ag'.pc \in {ag.pc, "ended"}]_vars
    /\ [][(uc.cancel \/ uc.pc = "ended") => channels' = channels]_vars
    /\ [][(ag.cancel \/ ag.pc = "ended") => guide_file' = guide_file]_vars
    /\ [][uc.pc = "ended" => uc' = uc]_vars
    /\ [][ag.pc = "ended" => ag' = ag]_vars
    /\ uc.cancel ~> (uc.pc = "ended")
    /\ ag.cancel ~> (ag.pc = "ended")

\* update_channels was cancelled in the sleep that follows a refresh that
\* raised, auto_update_guide inside generate_guide
C19_Witness ==
    /\ uc.pc = "ended"
    /\ uc.at = "sleep"
    /\ uc.delay = retry_delay
    /\ ag.pc = "ended"
    /\ ag.at = "generate"


(***************************************************************************)
(* Claims about StepDaddy.schedule                                         *)
(***************************************************************************)
\* C21: when the JSON endpoint has answered with 401, 403 or 404, the call
\* has gone on to request the HTML pages of the schedule
C21_FallsBackToHtml ==
    (sch.pc = "ended" /\ sch.answer.kind = "status" /\ sch.answer.code \in {401, 403, 404})
        => sch.sent.html > 0

(***************************************************************************)
(* Claims about decode_bundle                                              *)
(***************************************************************************)
\* C22: decode_bundle ends in one of two ways: it returns the object of a
\* candidate that parses to a JSON object with one of the marker keys, or it
\* reports that there is no bundle; no exception leaves it
C22_TwoOutcomes ==
    db.done =>
        /\ db.outcome.status = "returned"
        /\ db.outcome.from # Nothing =>
            /\ db.outcome.from.decoded.type = "obj"
            /\ \E i \in 1..Len(markers) : markers[i] \in DOMAIN db.outcome.from.decoded.fields

\* base64.b64encode of the UTF-8 bytes of a text, as code points
Base64Of(text) ==
    [i \in 1..Len(urlsafe_b64encode(Utf8Encode(text))) |->
        IF urlsafe_b64encode(Utf8Encode(text))[i] = "-" THEN 43
        ELSE IF urlsafe_b64encode(Utf8Encode(text))[i] = "_" THEN 47
        ELSE TokenCode(urlsafe_b64encode(Utf8Encode(text))[i])]
\* texts and their encodings
Encodings == {<<Base64Of(text), text>> : text \in SeqsUpTo({49, 50, 62, 8364}, 3)}

\* C23: the returned object has the keys of the parsed one; a field that is
\* no string is unchanged, a string that is the base64 of a text is replaced
\* by that text, and a string whose decoding fails is kept
C23_FieldsNormalized ==
    (db.done /\ db.outcome.status = "returned" /\ db.outcome.from # Nothing) =>
        /\ DOMAIN db.outcome.bundle = DOMAIN db.outcome.from.decoded.fields
        /\ \A k \in DOMAIN db.outcome.from.decoded.fields :
            IF db.outcome.from.decoded.fields[k].type # "str"
            THEN db.outcome.bundle[k] = db.outcome.from.decoded.fields[k]
            ELSE /\ \A e \in Encodings :
                        db.outcome.from.decoded.fields[k].text = e[1]
                            => db.outcome.bundle[k] = JStr(e[2])
                 /\ decode_value(db.outcome.from.decoded.fields[k].text) = NONE
                        => db.outcome.bundle[k] = db.outcome.from.decoded.fields[k]
\* the bundle {"b_ts": "4oKs", "nested": {"inner": "MQ=="}} was decoded; and
\* so was one whose b_ts is kept
C23_Witness ==
    /\ db.done
    /\ db.outcome.status = "returned"
    /\ db.outcome.from # Nothing
    /\ DOMAIN db.outcome.bundle = {"b_ts", "nested"}
    /\ db.outcome.from.decoded.fields["b_ts"] = JStr(One)
    /\ db.outcome.bundle["b_ts"] = JStr(<<49>>)
    /\ db.outcome.bundle["nested"] = Inner

\* C30: the bundle returned is that of the most specific pattern among the
\* candidates that qualify
C30_MostSpecificFirst ==
    (db.done /\ db.outcome.status = "returned" /\ db.outcome.from # Nothing) =>
        \A c \in candidates(db.text) :
            parse_candidate(c.decoded).status = "dict"
                => db.outcome.from.pattern <= c.pattern


(***************************************************************************)
(* Claims about concurrent calls of StepDaddy.stream                       *)
(***************************************************************************)
\* the states a call reaches by its next step when it runs alone
AloneSteps(s) ==
    IF s.pc = "idle" THEN {stream_called(s, channel_id) : channel_id \in StreamChannelIds}
    ELSE IF s.pc = "page" THEN {PageReturn(s, answer) : answer \in PageAnswers}
    ELSE IF s.pc = "iframe" THEN {IframeReturn(s, answer) : answer \in IframeAnswers}
    ELSE IF s.pc = "auth" THEN {AuthReturn(s, answer) : answer \in AuthAnswers}
    ELSE IF s.pc = "lookup" THEN {LookupReturn(s, answer) : answer \in LookupAnswers}
    ELSE IF s.pc = "m3u8" THEN {PlaylistReturn(s, answer) : answer \in PlaylistAnswers}
    ELSE {}

C25_InvalidTokenRefused ==
    (px.pc # "idle" /\ \E i \in 1..Len(px.tokens) : decrypt(key_bytes, px.tokens[i]) = InvalidToken)
        => /\ px.pc = "done"
           /\ px.sent = 0
           /\ px.target = NONE
           /\ px.status = IF px.route = "key" THEN 500 ELSE 400
\* a key request whose URL token decrypts to a URL and whose host token does
\* not decrypt has been answered
C25_Witness ==
    /\ px.route = "key"
    /\ px.pc = "done"
    /\ decrypt(key_bytes, px.tokens[1]) # InvalidToken
    /\ decrypt(key_bytes, px.tokens[1]).text # <<>>
    /\ decrypt(key_bytes, px.tokens[2]) = InvalidToken


(***************************************************************************)
(* Claims about the failures of StepDaddy.stream (checked under            *)
(* SpecStream).                                                            *)
(***************************************************************************)
\* the errors stream() raises when the handshake does not go through
HandshakeErrors ==
    {"ValueError: Channel key not found in upstream response",
     "ValueError: Bundle data missing from upstream response",
     "ValueError: Incomplete authentication data returned from upstream",
     "ValueError: Invalid key response received from upstream",
     "ValueError: No server key found in response"}

\* C26: when the iframe response with the marker has no channel key, no XJZ
\* bundle, or a bundle that decodes to less than the four fields, the call
\* has raised a handshake error and has sent no auth request, no server
\* lookup and no playlist request
C26_NoRequestAfterFailedExtraction ==
    (/\ Reached("IframeFound")
     /\ \/ ~st.source_response.key
        \/ st.source_response.bundle \in {"missing", "undecodable", "incomplete"})
        => /\ st.pc = "raised"
           /\ st.error \in HandshakeErrors
           /\ st.sent.auth = 0 /\ st.sent.lookup = 0 /\ st.sent.m3u8 = 0
\* a bundle that lacks a field was decoded at the second template
C26_Witness ==
    /\ st.pc = "raised"
    /\ st.error = "ValueError: Incomplete authentication data returned from upstream"
    /\ st.source_response.key
    /\ st.source_response.bundle = "incomplete"
    /\ st.sent.decode = 1
    /\ st.prefix = 2

\* C27: a call ended by a rejected status of the auth GET, or by a lookup
\* body that is no JSON or has no server_key, has raised a handshake error,
\* and the route answers it as it answers a failed extraction
C27_SameFailureResult ==
    (/\ st.pc = "raised"
     /\ \/ st.sent.auth = 1 /\ st.sent.lookup = 0 /\ st.error = "HTTPError"
        \/ st.sent.lookup = 1 /\ st.sent.m3u8 = 0 /\ st.error \notin SessionErrors)
        => /\ st.error \in HandshakeErrors
           /\ stream_response(st)
                = stream_response(Raise(st, "ValueError: Channel key not found in upstream response"))

\* C28 as stated: a call that has reached AuthAccepted fails by a transport
\* error only
C28_FailuresFromFirstFour ==
    (st.pc = "raised" /\ Reached("AuthAccepted")) => st.error \in SessionErrors
\* C28: a ValueError of stream() is raised before ServerKeyResolved is
\* reached; a call that has reached ServerKeyResolved fails by an error of
\* the HTTP session only
C28_FailuresBeforeServerKey ==
    /\ (st.pc = "raised" /\ st.error \in ValueErrors) => ~Reached("ServerKeyResolved")
    /\ (st.pc = "raised" /\ Reached("ServerKeyResolved")) => st.error \in SessionErrors
\* the playlist GET was answered with a rejected status
C28_Witness ==
    /\ st.pc = "raised"
    /\ Reached("ServerKeyResolved")
    /\ st.error = "HTTPError"
    /\ st.sent.m3u8 = 1

NameKeys(name) == {norm(name), norm(strip_suffix(name))} \ {<<>>}

C37_ReconcileIdempotent ==
    (gs.called /\ gs.schedule.ok) =>
        reconcile(gs.result, channels, gs.selected) = gs.result
\* a schedule was filtered in which one reference was given the id of the
\* catalog channel of its name and another reference was dropped
C37_Witness ==
    /\ gs.called
    /\ gs.schedule.ok
    /\ gs.result # gs.schedule.entries
    /\ gs.result # EmptyDict
    /\ \E r \in RefsOf(gs.result) : r \notin RefsOf(gs.schedule.entries)
    /\ Cardinality(RefsOf(gs.result)) < Cardinality(RefsOf(gs.schedule.entries))

(***************************************************************************)
(* A further claim about generate_guide (checked under SpecGuide)          *)
(***************************************************************************)
\* C39: in a guide that generate_guide has written, the channel records have
\* distinct ids, and the channel of every programme record is the id of one
\* of the channel records.
C39_RecordsConsistent ==
    gg.written =>
        /\ \A k, l \in 1..Len(guide_file.channels) :
              guide_file.channels[k].id = guide_file.channels[l].id => k = l
        /\ \A p \in 1..Len(guide_file.programmes) :
              \E k \in 1..Len(guide_file.channels) :
                  guide_file.channels[k].id = guide_file.programmes[p].channel
\* a guide was written with two programmes on a catalog channel and one on
\* a selected channel that the catalog does not have
C39_Witness ==
    /\ gg.written
    /\ Len(guide_file.channels) = 2
    /\ \E p, q \in 1..Len(guide_file.programmes) :
          /\ p # q
          /\ guide_file.programmes[p].channel = guide_file.programmes[q].channel
          /\ guide_file.programmes[p].channel \in CatalogIds
    /\ \E p \in 1..Len(guide_file.programmes) :
          guide_file.programmes[p].channel \notin CatalogIds

(***************************************************************************)
(* A further claim about StepDaddy.stream (checked under SpecStream)       *)
(***************************************************************************)
\* the errors raised by the extraction of lines 256-274
ExtractionErrors ==
    {"ValueError: Channel key not found in upstream response",
     "ValueError: Bundle data missing from upstream response",
     "ValueError: Incomplete authentication data returned from upstream",
     BundleError}
\* the call has gone on to the extraction of the key and the bundle
Extracting ==
    \/ st.sent.decode > 0
    \/ st.pc \in {"auth", "lookup", "m3u8", "returned"}
    \/ st.pc = "raised" /\ st.error \in ExtractionErrors
\* C38: once the call has gone on to the extraction, and from then on, the
\* response it works with is the answer to the latest POST of an iframe URL,
\* that answer passed the status check and holds the key marker, and the
\* iframe URL kept for the Referer, the server lookup and the key host is
\* the one that was POSTed for it, that of the template reached.
C38_ExtractsFromAcceptedResponse ==
    Extracting =>
        /\ st.source_response = st.answered
        /\ st.source_response.status = "ok"
        /\ st.source_response.marker
        /\ st.source_response.url = st.source_url
        /\ st.source_url = st.prefix
\* the first template's iframe answered with an HTTP error that held the
\* marker, then with a transport error, then without the marker; the second
\* template's iframe answered with an HTTP error and then with the marker,
\* and the call went on to the auth request
C38_Witness ==
    /\ Extracting
    /\ st.pc = "auth"
    /\ st.prefix = 2
    /\ st.attempt = 2
    /\ st.sent.iframe = 5
    /\ st.source_response.url = 2

(***************************************************************************)
(* Claims about the clock of auto_update_guide (checked under SpecTimer)   *)
(***************************************************************************)
\* the instants after `from` and up to `to` at which the wall clock of the
\* zone shows the hour
OccurrencesOf(zone, hour, from, to) ==
    {t \in (from + 1)..to : now(zone, t) % 24 = hour}
\* C33: once auto_update_guide has started, it has generated a guide at once
\* if and only if there was no guide.xml; after a failed generation, initial
\* or scheduled, the task sleeps until the next one; and the scheduled
\* generations are those, one each, of the instants since the first sleep
\* at which the zone's clock showed the hour of GUIDE_UPDATE.
C33_GuideTimer ==
    tm.pc # "off" =>
        /\ tm.initial <=> ~tm.existed
        /\ tm.failed => tm.pc = "sleep"
        /\ \A i \in 1..Len(tm.runs) : now(tm.zone, tm.runs[i]) % 24 = tm.hour
        /\ \A i, j \in 1..Len(tm.runs) : i < j => tm.runs[i] < tm.runs[j]
        /\ tm.pc = "sleep" =>
              OccurrencesOf(tm.zone, tm.hour, tm.since, tm.t)
                  \subseteq {tm.runs[i] : i \in 1..Len(tm.runs)}


(***************************************************************************)
(* Claims about overlapping regenerations (checked under SpecRegen)        *)
(***************************************************************************)
\* the ids of the channel records of guide.xml
RecordIds(file) == {file.channels[i].id : i \in 1..Len(file.channels)}
\* the calls in flight that set_selected_channel_ids has made
Triggered(tasks) == {i \in 1..Len(tasks) : tasks[i].caller = "triggered"}
\* C34: every change of the selection starts a call of generate_guide; and
\* when the selection has been changed and every call so started has ended
\* without an exception, guide.xml is written and its channel records are
\* those of the selection now in the file: no record of an id outside it,
\* and a record of every catalog channel in it, whatever other calls have
\* ended before or are still in flight.
C34_GuideFollowsSelection ==
    /\ [][rg'.saves # rg.saves =>
            /\ Len(rg'.tasks) = Len(rg.tasks) + 1
            /\ rg'.tasks[Len(rg'.tasks)].caller = "triggered"]_vars
    /\ []((rg.saves > 0 /\ ~rg.raised /\ Triggered(rg.tasks) = {}) =>
            /\ guide_file.written
            /\ RecordIds(guide_file)
                   \subseteq get_selected_channel_ids(channel_file, channels)
            /\ \A i \in 1..Len(channels) :
                   channels[i].id \in get_selected_channel_ids(channel_file, channels)
                       => channels[i].id \in RecordIds(guide_file))
\* the selection was changed twice while a scheduled call was in flight; the
\* call of the second change ended before that of the first and before the
\* scheduled one, and the guide has the record of the second selection
C34_Witness ==
    /\ rg.saves = 2
    /\ ~rg.raised
    /\ rg.ended
    /\ Len(rg.tasks) = 1
    /\ rg.tasks[1].caller = "other"
    /\ rg.tasks[1].file # channel_file
    /\ channel_file = File({<<"1">>})
    /\ RecordIds(guide_file) = {<<"1">>}


(***************************************************************************)
(* Claims about overlapping runs of load_channels (checked under           *)
(* SpecLoads)                                                              *)
(***************************************************************************)
\* the catalog of a run, from the answers that run has got
ResultOf(record) ==
    Finalize(IF record.listing = Failure
             THEN (IF record.schedule = Failure THEN {}
                   ELSE MergeSchedule({}, record.schedule.entries))
             ELSE IF record.schedule = Failure THEN record.listing.entries
             ELSE MergeSchedule(record.listing.entries, record.schedule.entries))
\* C35: whether or not runs of load_channels overlap, the catalog is at
\* every moment what the run that published last has built from its own
\* listing and schedule answers (and empty before any run has published):
\* never a mixture of two runs.
C35_CatalogOfOneRun ==
    channels = IF ld.published = <<>> THEN <<>>
               ELSE ResultOf(ld.published[Len(ld.published)])
\* refresh_all was called while update_channels was loading and got other
\* answers; update_channels published first and refresh_all last
C35_Witness ==
    /\ ld.overlapped
    /\ Len(ld.published) = 2
    /\ ld.published[1].run = "update_channels"
    /\ ld.published[2].run = "refresh_all"
    /\ ld.published[1].listing # ld.published[2].listing
    /\ ld.published[2].listing # Failure
    /\ ld.runs["update_channels"].pc = "idle"
    /\ ResultOf(ld.published[1]) # ResultOf(ld.published[2])


(***************************************************************************)
(* Claims about the /playlist.m3u8 route (checked under SpecPlaylist)      *)
(***************************************************************************)
\* C36: the playlist served has one entry for each catalog channel whose id
\* is in the selection, in catalog order, and no other entry, also when the
\* selection holds no id of the catalog.
C36_PlaylistOfSelection ==
    pl.served =>
        LET chosen == selected_channels(channels,
                          get_selected_channel_ids(channel_file, channels))
        IN  /\ Len(pl.entries) = Len(chosen)
            /\ \A i \in 1..Len(chosen) :
                  /\ pl.entries[i].id = chosen[i].id
                  /\ pl.entries[i].name = chosen[i].name

=============================================================================
